---- MODULE Spec2Model ----
(***************************************************************************)
(* Book Formatter: configuration validator (src/src/ConfigValidator.js),   *)
(* navigation sequence builder and the createBook / updateBook runs        *)
(* (BookGenerator, src/unnamed/part_006) with the error handler that wraps *)
(* them (ErrorHandler, src/unnamed/part_005).                              *)
(*                                                                         *)
(* JavaScript values are records [t, s, n]: t is the tag, s the characters *)
(* of a string (one-character strings), n the number or the boolean (0/1). *)
(* A thrown Error is the sequence of the tokens of its message; the empty  *)
(* sequence stands for "returned normally".                                *)
(***************************************************************************)
EXTENDS Integers, Sequences, FiniteSets, TLC

VARIABLES
  config,          \* the decoded configuration of the run
  pc,              \* position of the run / of the call under test
  mode,            \* "create" | "update" | "call"
  validateResult,  \* message thrown by validate, <<>> when it returned
  navigationOrder, \* the page keys, in order
  navigationData,  \* page key -> entry, as written to navigation.json
  thrown,          \* message of the error the run ended with, <<>> if none
  fsWrites,        \* the file-system writes performed so far, in order
  errorCount,      \* ErrorHandler.errorCount
  attempt,         \* attempts made by the two nested safeExecute of the output directory
  context,         \* ErrorHandler.context
  details,         \* the results object of getValidationDetails
  templates,       \* TemplateEngine.templates: name -> template
  data,            \* the data object handed to render
  rendered,        \* what the last call of render returned or threw
  returned,        \* what the last call of getPageTitle or isValidVersion returned
  warningCount,    \* ErrorHandler.warningCount
  call,            \* the call of safeExecute in progress, or the last one
  invocations,     \* the invocations of the operation made by that call
  failedAttempts,  \* history: operation attempts that failed since the last reset
  loggedWarnings   \* history: calls of logWarning since the last reset

\* the state of the template engine and of its caller
engineVars == <<templates, data, rendered>>

\* the state of the error handler besides errorCount and context, and of
\* the safeExecute call made on it
handlerVars == <<warningCount, call, invocations, failedAttempts, loggedWarnings>>

vars == <<config, pc, mode, validateResult, navigationOrder, navigationData,
          thrown, fsWrites, errorCount, attempt, context, details, engineVars,
          returned, handlerVars>>

(***************************************************************************)
(* Bounds of the model                                                     *)
(***************************************************************************)
MaxItems == 2      \* items per chapters list in the navigation inputs
MaxOrder == 2      \* entries of navigation.order in the validator inputs
MaxAppendices == 1 \* items of the appendices list in the validator inputs
MaxRetries == 2    \* the largest value of the option retries of safeExecute
MaxCalls == 1      \* calls of safeExecute made on one error handler
MaxWarnings == 1   \* calls of logWarning between two resets

(***************************************************************************)
(* JavaScript values                                                       *)
(***************************************************************************)
Undef == [t |-> "undefined", s |-> <<>>, n |-> 0]
Null == [t |-> "null", s |-> <<>>, n |-> 0]
Bool(b) == [t |-> "boolean", s |-> <<>>, n |-> IF b THEN 1 ELSE 0]
Num(k) == [t |-> "number", s |-> <<>>, n |-> k]
Str(cs) == [t |-> "string", s |-> cs, n |-> 0]
Obj == [t |-> "object", s |-> <<>>, n |-> 0]

\* ToBoolean
Truthy(v) ==
  CASE v.t = "undefined" -> FALSE
    [] v.t = "null"      -> FALSE
    [] v.t = "boolean"   -> v.n = 1
    [] v.t = "number"    -> v.n # 0
    [] v.t = "string"    -> Len(v.s) > 0
    [] OTHER             -> TRUE

\* typeof
TypeOf(v) == IF v.t = "null" THEN "object" ELSE v.t

\* cs repeated: the string of n characters c
Rep(c, n) == [i \in 1..n |-> c]

Lower == {"a","b","c","d","e","f","g","h","i","j","k","l","m",
          "n","o","p","q","r","s","t","u","v","w","x","y","z"}
Upper == {"A","B","C","D","E","F","G","H","I","J","K","L","M",
          "N","O","P","Q","R","S","T","U","V","W","X","Y","Z"}
Digit == {"0","1","2","3","4","5","6","7","8","9"}

AllIn(cs, S) == \A i \in 1..Len(cs) : cs[i] \in S

\* index of the first occurrence of character c in cs, 0 when it has none
FirstIndex(cs, c) ==
  IF \E i \in 1..Len(cs) : cs[i] = c
  THEN CHOOSE i \in 1..Len(cs) : cs[i] = c /\ \A j \in 1..(i-1) : cs[j] # c
  ELSE 0

RECURSIVE Split(_, _)
\* String.prototype.split on a one-character separator
Split(cs, c) ==
  LET i == FirstIndex(cs, c)
  IN IF i = 0 THEN <<cs>>
     ELSE <<SubSeq(cs, 1, i-1)>> \o Split(SubSeq(cs, i+1, Len(cs)), c)

RECURSIVE StrOf(_)
\* the characters cs as one token of a message
StrOf(cs) == IF cs = <<>> THEN "" ELSE cs[1] \o StrOf(Tail(cs))

\* the messages of a sequence of checks, run in order: the first one thrown
RECURSIVE FirstError(_)
FirstError(msgs) ==
  IF msgs = <<>> THEN <<>>
  ELSE IF Head(msgs) # <<>> THEN Head(msgs) ELSE FirstError(Tail(msgs))

(***************************************************************************)
(* ConfigValidator                                                         *)
(***************************************************************************)
requiredFields == <<"title", "description", "author">>

TitleMaxLength == 100
DescriptionMaxLength == 500

\* config[field] for the scalar fields of the configuration
Field(cfg, field) ==
  CASE field = "title"       -> cfg.title
    [] field = "description" -> cfg.description
    [] field = "author"      -> cfg.author
    [] field = "version"     -> cfg.version
    [] field = "language"    -> cfg.language

\* faulty variant of MissingFields: stops at the first missing field
MissingFieldsDropRest(cfg) ==
  LET miss == SelectSeq(requiredFields, LAMBDA f : ~Truthy(Field(cfg, f)))
  IN IF miss = <<>> THEN <<>> ELSE <<Head(miss)>>

\* validateRequiredFields: collects every missing or falsy required field
MissingFields(cfg) ==
  SelectSeq(requiredFields, LAMBDA f : ~Truthy(Field(cfg, f)))

validateRequiredFields(cfg) ==
  LET missingFields == MissingFields(cfg)
  IN IF Len(missingFields) > 0
     THEN <<"required fields missing:">> \o missingFields
     ELSE <<>>

\* faulty variant of IsNumericId: \d+, a leading zero is let through
IsNumericIdLeadingZero(cs) == Len(cs) > 0 /\ AllIn(cs, Digit)

\* one numeric identifier of a version: 0|[1-9]\d*
IsNumericId(cs) ==
  /\ Len(cs) > 0
  /\ AllIn(cs, Digit)
  /\ (cs[1] = "0" => Len(cs) = 1)

\* one prerelease identifier: 0|[1-9]\d*|\d*[a-zA-Z-][0-9a-zA-Z-]*
IsPrereleaseId(cs) ==
  /\ Len(cs) > 0
  /\ AllIn(cs, Digit \cup Lower \cup Upper \cup {"-"})
  /\ (AllIn(cs, Digit) => IsNumericId(cs))

\* one build identifier: [0-9a-zA-Z-]+
IsBuildId(cs) ==
  /\ Len(cs) > 0
  /\ AllIn(cs, Digit \cup Lower \cup Upper \cup {"-"})

\* isValidVersion: semverRegex.test(version)
isValidVersion(cs) ==
  LET plus  == FirstIndex(cs, "+")
      head  == IF plus = 0 THEN cs ELSE SubSeq(cs, 1, plus - 1)
      build == IF plus = 0 THEN <<>> ELSE SubSeq(cs, plus + 1, Len(cs))
      dash  == FirstIndex(head, "-")
      core  == IF dash = 0 THEN head ELSE SubSeq(head, 1, dash - 1)
      pre   == IF dash = 0 THEN <<>> ELSE SubSeq(head, dash + 1, Len(head))
      nums  == Split(core, ".")
      pres  == Split(pre, ".")
      blds  == Split(build, ".")
  IN /\ Len(nums) = 3
     /\ \A i \in 1..3 : IsNumericId(nums[i])
     /\ (dash # 0 => \A i \in 1..Len(pres) : IsPrereleaseId(pres[i]))
     /\ (plus # 0 => \A i \in 1..Len(blds) : IsBuildId(blds[i]))

stringFields == <<"title", "description", "author", "version", "language">>

\* faulty variant of TypeErrors: language is not checked
TypeErrorsIgnoringLanguage(cfg) ==
  SelectSeq(SubSeq(stringFields, 1, 4),
            LAMBDA f : Truthy(Field(cfg, f)) /\ TypeOf(Field(cfg, f)) # "string")

\* validateDataTypes: the string fields with a truthy value that is no string
TypeErrors(cfg) ==
  SelectSeq(stringFields,
            LAMBDA f : Truthy(Field(cfg, f)) /\ TypeOf(Field(cfg, f)) # "string")

validateDataTypes(cfg) ==
  LET bad == TypeErrors(cfg)
  IN IF bad # <<>> THEN <<Head(bad), "must be a string">>
     ELSE IF Truthy(cfg.title) /\ Len(cfg.title.s) > TitleMaxLength
       THEN <<"title must be at most 100 characters">>
     ELSE IF Truthy(cfg.description) /\ Len(cfg.description.s) > DescriptionMaxLength
       THEN <<"description must be at most 500 characters">>
     ELSE IF Truthy(cfg.version) /\ ~isValidVersion(cfg.version.s)
       THEN <<"version must be semantic versioning">>
     ELSE <<>>

\* /^[a-z0-9-]+$/.test(id)
IsValidId(cs) == Len(cs) > 0 /\ AllIn(cs, Lower \cup Digit \cup {"-"})

\* chapter.id, intro.path, item.path: reading a property of null throws
IsNullItem(item) == item.self.t = "null"

\* validateChapter / validateAppendix: label is the item kind, index is 1-based
validateItem(label, item, index) ==
  IF IsNullItem(item) THEN <<"TypeError">>
  ELSE IF ~Truthy(item.id) THEN <<label, ToString(index), "id", "is required">>
  ELSE IF ~Truthy(item.title) THEN <<label, ToString(index), "title", "is required">>
  ELSE IF TypeOf(item.id) # "string"
    THEN <<label, ToString(index), "id", "must be a string">>
  ELSE IF TypeOf(item.title) # "string"
    THEN <<label, ToString(index), "title", "must be a string">>
  ELSE IF ~IsValidId(item.id.s)
    THEN <<label, ToString(index), "id", "must be lowercase letters, digits, hyphens">>
  ELSE <<>>

validateChapter(chapter, index) == validateItem("chapter", chapter, index)

validateAppendix(appendix, index) == validateItem("appendix", appendix, index)

\* the loop over one list: the error of the first offending item
ItemErrors(label, items) ==
  FirstError([i \in 1..Len(items) |-> validateItem(label, items[i], i)])

\* the check of one of the two validated lists of structure
validateSection(label, name, section) ==
  IF section.k = "absent" THEN <<>>
  ELSE IF section.k # "array" THEN <<name, "must be an array">>
  ELSE ItemErrors(label, section.items)

validateStructure(cfg) ==
  IF cfg.structure.k = "absent" THEN <<>>
  ELSE FirstError(<<validateSection("chapter", "chapters", cfg.structure.chapters),
                    validateSection("appendix", "appendices", cfg.structure.appendices)>>)

\* /^[a-zA-Z0-9\-_/]+$/.test(path)
IsValidOrderPath(v) ==
  Len(v.s) > 0 /\ AllIn(v.s, Lower \cup Upper \cup Digit \cup {"-", "_", "/"})

Range(f) == {f[i] : i \in DOMAIN f}

\* faulty variant of HasDuplicates: the check is left out
HasDuplicatesUnchecked(items) == FALSE

\* new Set(navigation.order).size !== navigation.order.length
HasDuplicates(items) == Cardinality(Range(items)) # Len(items)

\* validateNavigation
validateNavigation(cfg) ==
  IF cfg.navigation.k = "absent" THEN <<>>
  ELSE LET order == cfg.navigation.order
       IN IF order.k \in {"absent", "falsy"} THEN <<>>
          ELSE IF order.k # "array"
            THEN <<"navigation.order", "must be an array">>
          ELSE IF HasDuplicates(order.items)
            THEN <<"navigation.order", "contains duplicate paths">>
          ELSE IF SelectSeq(order.items,
                            LAMBDA p : ~Truthy(p) \/ TypeOf(p) # "string") # <<>>
            THEN <<"navigation.order", "contains invalid paths">>
          ELSE LET invalidFormat ==
                     SelectSeq(order.items, LAMBDA p : ~IsValidOrderPath(p))
               IN IF Len(invalidFormat) > 0
                  THEN <<"navigation.order", "contains paths of invalid format:">>
                         \o [i \in 1..Len(invalidFormat) |-> StrOf(invalidFormat[i].s)]
                  ELSE <<>>

SpecialSchemes == {<<"h","t","t","p">>, <<"h","t","t","p","s">>, <<"f","t","p">>,
                   <<"w","s">>, <<"w","s","s">>}

RECURSIVE DropSlashes(_)
DropSlashes(cs) ==
  IF cs # <<>> /\ Head(cs) = "/" THEN DropSlashes(Tail(cs)) ELSE cs

\* isValidUrl: new URL(url) does not throw. An absolute URL needs a scheme
\* ([A-Za-z][A-Za-z0-9+.-]*) before its first ':'; a special scheme also
\* needs a host.
isValidUrl(cs) ==
  LET colon  == FirstIndex(cs, ":")
      scheme == SubSeq(cs, 1, colon - 1)
      rest   == SubSeq(cs, colon + 1, Len(cs))
  IN /\ colon > 1
     /\ scheme[1] \in Lower \cup Upper
     /\ AllIn(scheme, Lower \cup Upper \cup Digit \cup {"+", "-", "."})
     /\ (scheme \in SpecialSchemes => DropSlashes(rest) # <<>>)

\* validateRepository
validateRepository(cfg) ==
  IF cfg.repository.k = "absent" THEN <<>>
  ELSE LET repo == cfg.repository
       IN IF Truthy(repo.url) /\ TypeOf(repo.url) # "string"
            THEN <<"repository.url", "must be a string">>
          ELSE IF Truthy(repo.url) /\ ~isValidUrl(repo.url.s)
            THEN <<"repository.url", "must be a valid URL">>
          ELSE IF Truthy(repo.branch) /\ TypeOf(repo.branch) # "string"
            THEN <<"repository.branch", "must be a string">>
          ELSE <<>>

\* faulty variant of ValidateSteps: repository before navigation
ValidateStepsRepositoryFirst(cfg) ==
  <<validateRequiredFields(cfg), validateDataTypes(cfg), validateStructure(cfg),
    validateRepository(cfg), validateNavigation(cfg)>>

\* the steps of validate after the shape check, in the order validate runs them
ValidateSteps(cfg) ==
  <<validateRequiredFields(cfg), validateDataTypes(cfg), validateStructure(cfg),
    validateNavigation(cfg), validateRepository(cfg)>>

\* validate: the message of the error it throws, <<>> when it returns
validate(cfg) ==
  IF ~Truthy(cfg.self) \/ TypeOf(cfg.self) # "object"
  THEN <<"configuration is not an object">>
  ELSE FirstError(ValidateSteps(cfg))

(***************************************************************************)
(* BookGenerator: the navigation sequence                                  *)
(***************************************************************************)
HtmlSuffix == <<".", "h", "t", "m", "l">>

\* path.replace(/^\//, '')
StripLeadingSlash(cs) ==
  IF cs # <<>> /\ cs[1] = "/" THEN Tail(cs) ELSE cs

\* path.replace(/\.html$/, '')
StripHtmlSuffix(cs) ==
  IF Len(cs) >= 5 /\ SubSeq(cs, Len(cs) - 4, Len(cs)) = HtmlSuffix
  THEN SubSeq(cs, 1, Len(cs) - 5)
  ELSE cs

\* cleanPath: the page key of a section item's path
CleanPath(cs) == StripHtmlSuffix(StripLeadingSlash(cs))

\* structure.<name>, read through `config.structure || {}`
SectionNames == <<"introduction", "chapters", "conclusion", "appendices">>

AbsentSection == [k |-> "absent", items |-> <<>>]

SectionOf(cfg, name) ==
  IF cfg.structure.k = "absent" THEN AbsentSection
  ELSE CASE name = "introduction" -> cfg.structure.introduction
         [] name = "chapters"     -> cfg.structure.chapters
         [] name = "conclusion"   -> cfg.structure.conclusion
         [] name = "appendices"   -> cfg.structure.appendices

RECURSIVE Flatten(_)
\* the concatenation of a sequence of sequences
Flatten(ss) == IF ss = <<>> THEN <<>> ELSE Head(ss) \o Flatten(Tail(ss))

RECURSIVE PushPaths(_, _)
\* section.forEach(item => { if (item.path) order.push(cleanPath) })
PushPaths(order, items) ==
  IF items = <<>> THEN order
  ELSE PushPaths(IF Truthy(Head(items).path)
                 THEN Append(order, CleanPath(Head(items).path.s))
                 ELSE order,
                 Tail(items))

\* faulty variant of DefaultSectionNames: chapters come first
DefaultSectionNamesChaptersFirst ==
  <<"chapters", "introduction", "conclusion", "appendices">>

\* the four sections are visited in this order
DefaultSectionNames == SectionNames

RECURSIVE PushSections(_, _, _)
PushSections(cfg, order, names) ==
  IF names = <<>> THEN order
  ELSE PushSections(cfg,
                    PushPaths(order, SectionOf(cfg, Head(names)).items),
                    Tail(names))

\* a section that is present and no array has no forEach and cannot be
\* spread: reading it throws a TypeError
HasNonArraySection(cfg) ==
  \E i \in 1..Len(SectionNames) : SectionOf(cfg, SectionNames[i]).k = "other"

\* generateDefaultNavigationOrder (defined when no section throws)
generateDefaultNavigationOrder(cfg) ==
  PushSections(cfg, <<>>, DefaultSectionNames)

\* every section item, as getPageTitle collects them
AllSections(cfg) ==
  Flatten([i \in 1..Len(SectionNames) |-> SectionOf(cfg, SectionNames[i]).items])

\* item => item.path of a forEach callback meets a null item
HasNullItem(cfg) ==
  \E i \in 1..Len(AllSections(cfg)) : IsNullItem(AllSections(cfg)[i])

\* generateDefaultNavigationOrder throws a TypeError
DefaultOrderThrows(cfg) == HasNonArraySection(cfg) \/ HasNullItem(cfg)

\* the loop of getPageTitle meets a null item before an item of pagePath
NullBeforeMatch(cfg, pagePath) ==
  LET all == AllSections(cfg)
  IN \E i \in 1..Len(all) :
        /\ IsNullItem(all[i])
        /\ \A j \in 1..(i-1) :
              ~(Truthy(all[j].path) /\ CleanPath(all[j].path.s) = pagePath)

UpperOf(c) ==
  IF c \in Lower
  THEN CHOOSE u \in Upper :
         \E i \in 1..26 : /\ <<"a","b","c","d","e","f","g","h","i","j","k","l","m",
                                "n","o","p","q","r","s","t","u","v","w","x","y","z">>[i] = c
                          /\ <<"A","B","C","D","E","F","G","H","I","J","K","L","M",
                                "N","O","P","Q","R","S","T","U","V","W","X","Y","Z">>[i] = u
  ELSE c

WordChars == Lower \cup Upper \cup Digit \cup {"_"}

\* pagePath.replace(/[-_/]/g, ' ').replace(/\b\w/g, l => l.toUpperCase())
Humanize(cs) ==
  LET spaced == [i \in 1..Len(cs) |->
                   IF cs[i] \in {"-", "_", "/"} THEN " " ELSE cs[i]]
  IN [i \in 1..Len(spaced) |->
        IF spaced[i] \in WordChars /\ (i = 1 \/ spaced[i-1] \notin WordChars)
        THEN UpperOf(spaced[i])
        ELSE spaced[i]]

\* faulty variant of getPageTitle: the loop does not stop at the first match
getPageTitleLastMatch(cfg, pagePath) ==
  LET matches == SelectSeq(AllSections(cfg),
                   LAMBDA item : Truthy(item.path) /\ CleanPath(item.path.s) = pagePath)
      last    == matches[Len(matches)]
  IN IF matches # <<>>
     THEN IF Truthy(last.title) THEN last.title ELSE Str(pagePath)
     ELSE Str(Humanize(pagePath))

\* getPageTitle: the title of the first item whose clean path is pagePath,
\* else the humanized pagePath
getPageTitle(cfg, pagePath) ==
  LET matches == SelectSeq(AllSections(cfg),
                   LAMBDA item : Truthy(item.path) /\ CleanPath(item.path.s) = pagePath)
  IN IF matches # <<>>
     THEN IF Truthy(Head(matches).title) THEN Head(matches).title ELSE Str(pagePath)
     ELSE Str(Humanize(pagePath))

DigitChars == <<"0", "1", "2", "3", "4", "5", "6", "7", "8", "9">>

\* String(v): the property key a value is stored under, and its text in a
\* template literal (numbers of the model are single digits)
ToStr(v) ==
  CASE v.t = "string"    -> v.s
    [] v.t = "number"    -> <<DigitChars[v.n + 1]>>
    [] v.t = "undefined" -> <<"u","n","d","e","f","i","n","e","d">>
    [] v.t = "null"      -> <<"n","u","l","l">>
    [] v.t = "boolean"   -> IF v.n = 1 THEN <<"t","r","u","e">>
                                       ELSE <<"f","a","l","s","e">>
    [] OTHER             -> <<"[","o","b","j","e","c","t","]">>

NullLink == [null |-> TRUE, path |-> <<>>, title |-> Undef]

\* { path: `/${p}.html`, title: getPageTitle(config, p) }
Link(cfg, p) ==
  [null  |-> FALSE,
   path  |-> <<"/">> \o ToStr(p) \o HtmlSuffix,
   title |-> getPageTitle(cfg, ToStr(p))]

\* the entry built at position i (1-based here; index is 0-based as in the
\* code); `prevPath ? {...} : null` also yields null for a falsy neighbour
Entry(cfg, order, i) ==
  [previous |-> IF i > 1 /\ Truthy(order[i-1])
                THEN Link(cfg, order[i-1]) ELSE NullLink,
   next     |-> IF i < Len(order) /\ Truthy(order[i+1])
                THEN Link(cfg, order[i+1]) ELSE NullLink,
   index    |-> i - 1,
   total    |-> Len(order)]

EmptyMap == [k \in {} |-> 0]

\* navigationData[key] = entry
Put(map, key, entry) ==
  [k \in (DOMAIN map) \cup {key} |-> IF k = key THEN entry ELSE map[k]]

RECURSIVE BuildEntries(_, _, _, _)
\* navigationOrder.forEach((pagePath, index) => navigationData[pagePath] = ...)
BuildEntries(cfg, order, i, map) ==
  IF i > Len(order) THEN map
  ELSE BuildEntries(cfg, order, i + 1,
                    Put(map, ToStr(order[i]), Entry(cfg, order, i)))

\* config.navigation?.order is truthy
HasCustomOrder(cfg) ==
  cfg.navigation.k # "absent" /\ cfg.navigation.order.k \in {"array", "other"}

\* faulty variant of NavigationOrder: navigation.order is ignored
NavigationOrderIgnoringCustom(cfg) ==
  [i \in 1..Len(generateDefaultNavigationOrder(cfg)) |->
     Str(generateDefaultNavigationOrder(cfg)[i])]

\* the order generateNavigationData works on
NavigationOrder(cfg) ==
  IF HasCustomOrder(cfg) THEN cfg.navigation.order.items
  ELSE [i \in 1..Len(generateDefaultNavigationOrder(cfg)) |->
          Str(generateDefaultNavigationOrder(cfg)[i])]

\* getPageTitle is called for a page: it is some entry's truthy neighbour
TitleIsRead(order, i) ==
  Len(order) > 1 /\ Truthy(order[i])

\* generateNavigationData throws a TypeError: navigation.order has no
\* forEach, a section that is read is no array or holds a null item, or the
\* title of a page that is no string is asked for and found in no section
NavigationThrows(cfg) ==
  IF HasCustomOrder(cfg)
  THEN LET order == cfg.navigation.order.items
       IN \/ cfg.navigation.order.k = "other"
          \/ \E i \in 1..Len(order) :
                /\ TitleIsRead(order, i)
                /\ \/ HasNonArraySection(cfg)
                   \/ order[i].t # "string"
                   \/ NullBeforeMatch(cfg, order[i].s)
  ELSE DefaultOrderThrows(cfg)

(***************************************************************************)
(* The configurations the model runs on                                    *)
(***************************************************************************)
\* sequences over S of length at most n
SeqsUpTo(S, n) == UNION {[1..k -> S] : k \in 0..n}

Chars(str) ==
  CASE str = "T"        -> <<"T">>
    [] str = "D"        -> <<"D">>
    [] str = "A"        -> <<"A">>
    [] str = "ja"       -> <<"j", "a">>
    [] str = "a"        -> <<"a">>
    [] str = "b"        -> <<"b">>
    [] str = "ch-1"     -> <<"c", "h", "-", "1">>
    [] str = "A_1!"     -> <<"A", "_", "1", "!">>
    [] str = "1.0.0"    -> <<"1", ".", "0", ".", "0">>
    [] str = "1.0"      -> <<"1", ".", "0">>
    [] str = "/a.html"  -> <<"/", "a", ".", "h", "t", "m", "l">>
    [] str = "/b.html"  -> <<"/", "b", ".", "h", "t", "m", "l">>
    [] str = "/c-d.html" -> <<"/", "c", "-", "d", ".", "h", "t", "m", "l">>
    [] str = "/.html"   -> <<"/", ".", "h", "t", "m", "l">>
    [] str = "c-d"      -> <<"c", "-", "d">>
    [] str = "x/y_z"    -> <<"x", "/", "y", "_", "z">>
    [] str = "a b"      -> <<"a", " ", "b">>
    [] str = "https://h/r" -> <<"h","t","t","p","s",":","/","/","h","/","r">>
    [] str = "git:r"    -> <<"g","i","t",":","r">>
    [] str = "no-url"   -> <<"n","o","-","u","r","l">>
    [] str = "main"     -> <<"m","a","i","n">>

Lit(str) == Str(Chars(str))

Section(items) == [k |-> "array", items |-> items]
OtherSection == [k |-> "other", items |-> <<>>]

NoStructure ==
  [k |-> "absent", introduction |-> AbsentSection, chapters |-> AbsentSection,
   conclusion |-> AbsentSection, appendices |-> AbsentSection]

Structure(intro, chapters, concl, appendices) ==
  [k |-> "object", introduction |-> intro, chapters |-> chapters,
   conclusion |-> concl, appendices |-> appendices]

\* navigation.order: "absent" (undefined), "falsy" (null, '', 0, false),
\* "other" (truthy, no array), "array"
NoOrder == [k |-> "absent", items |-> <<>>]
FalsyOrder == [k |-> "falsy", items |-> <<>>]
OtherOrder == [k |-> "other", items |-> <<>>]
Order(items) == [k |-> "array", items |-> items]

NoNavigation == [k |-> "absent", order |-> NoOrder]
Navigation(order) == [k |-> "object", order |-> order]

NoRepository == [k |-> "absent", url |-> Undef, branch |-> Undef]
Repository(url, branch) == [k |-> "object", url |-> url, branch |-> branch]

Item(id, title, path) ==
  [self |-> Obj, id |-> id, title |-> title, path |-> path]

\* an item that is null (an empty list entry of the YAML file)
NullItem == [self |-> Null, id |-> Undef, title |-> Undef, path |-> Undef]

\* a configuration that passes validate, the base the others vary
BaseConfig ==
  [self |-> Obj, title |-> Lit("T"), description |-> Lit("D"), author |-> Lit("A"),
   version |-> Undef, language |-> Undef, structure |-> NoStructure,
   navigation |-> NoNavigation, repository |-> NoRepository,
   githubPages |-> FALSE, mobile |-> TRUE]

\* a value that is no object: every property read of it is undefined
NonObjectConfig(v) ==
  [BaseConfig EXCEPT !.self = v, !.title = Undef, !.description = Undef,
                     !.author = Undef]

TitleValues == {Undef, Str(<<>>), Num(0), Num(5), Lit("T"),
                Str(Rep("x", TitleMaxLength)), Str(Rep("x", TitleMaxLength + 1))}
DescriptionValues == {Undef, Bool(FALSE), Obj, Lit("D"),
                      Str(Rep("x", DescriptionMaxLength)),
                      Str(Rep("x", DescriptionMaxLength + 1))}
AuthorValues == {Undef, Null, Bool(TRUE), Lit("A")}
VersionValues == {Undef, Num(0), Num(1), Lit("1.0.0"), Lit("1.0")}
LanguageValues == {Undef, Bool(FALSE), Num(5), Lit("ja")}

\* configurations that vary the scalar fields
ScalarConfigs ==
  {[BaseConfig EXCEPT !.title = t, !.description = d, !.author = a,
                      !.version = v, !.language = l] :
     t \in TitleValues, d \in DescriptionValues, a \in AuthorValues,
     v \in VersionValues, l \in LanguageValues}

\* items of chapters and appendices for the structural checks
CheckedItems ==
  {Item(id, Lit("T"), Undef) : id \in {Undef, Num(1), Lit("ch-1"), Lit("A_1!")}}
  \cup {Item(Lit("a"), t, Undef) : t \in {Undef, Num(2), Str(<<>>)}}
  \cup {Item(Num(1), Num(2), Undef), NullItem}

CheckedAppendixItems ==
  {Item(Lit("b"), Lit("T"), Undef), Item(Lit("A_1!"), Lit("T"), Undef),
   Item(Lit("b"), Undef, Undef)}

ChapterLists == {AbsentSection, OtherSection}
                   \cup {Section(x) : x \in SeqsUpTo(CheckedItems, MaxItems)}
AppendixLists == {AbsentSection, OtherSection}
                   \cup {Section(x) : x \in SeqsUpTo(CheckedAppendixItems, MaxAppendices)}

\* configurations that vary the two validated lists of structure
StructureConfigs ==
  {[BaseConfig EXCEPT !.structure = Structure(AbsentSection, c, AbsentSection, a)] :
     c \in ChapterLists, a \in AppendixLists}

OrderEntries == {Lit("a"), Lit("b"), Lit("x/y_z"), Lit("a b"), Str(<<>>), Num(5), Undef}

OrderValues == {NoOrder, FalsyOrder, OtherOrder}
                 \cup {Order(x) : x \in SeqsUpTo(OrderEntries, MaxOrder)}

RepositoryValues ==
  {NoRepository, Repository(Undef, Undef), Repository(Lit("https://h/r"), Lit("main")),
   Repository(Lit("git:r"), Undef), Repository(Lit("no-url"), Undef),
   Repository(Num(5), Undef), Repository(Lit("https://h/r"), Num(5))}

PagedStructure ==
  Structure(Section(<<Item(Undef, Lit("T"), Lit("/b.html"))>>),
            Section(<<Item(Lit("a"), Lit("A"), Lit("/a.html"))>>),
            AbsentSection, AbsentSection)

\* configurations that vary navigation.order and repository
OrderConfigs ==
  {[BaseConfig EXCEPT !.navigation = Navigation(o), !.repository = r,
                      !.structure = st] :
     o \in OrderValues, r \in RepositoryValues,
     st \in {NoStructure, PagedStructure}}

PathValues == {Undef, Lit("/a.html"), Lit("b"), Lit("/c-d.html"), Lit("/.html")}

PagedItems == {Item(Lit("a"), Lit("T"), p) : p \in PathValues}

\* configurations that vary the four section lists (no navigation.order)
SectionConfigs ==
  {[BaseConfig EXCEPT !.structure = Structure(i, c, n, a)] :
     i \in {AbsentSection, OtherSection}
             \cup {Section(<<Item(Undef, Lit("A"), p)>>) : p \in PathValues},
     c \in {AbsentSection} \cup {Section(x) : x \in SeqsUpTo(PagedItems, MaxItems)},
     n \in {AbsentSection, Section(<<Item(Undef, Num(2), Lit("/c-d.html"))>>)},
     a \in {AbsentSection, Section(<<>>),
            Section(<<Item(Lit("b"), Lit("D"), Lit("/b.html"))>>)}}

\* the inputs of the calls made directly, as the tests make them
CallConfigs ==
  {NonObjectConfig(Null), NonObjectConfig(Undef), NonObjectConfig(Lit("a"))}
    \cup ScalarConfigs \cup StructureConfigs \cup OrderConfigs \cup SectionConfigs

\* the configurations createBook and updateBook are run on
RunConfigs ==
  {BaseConfig,
   [BaseConfig EXCEPT !.githubPages = TRUE, !.mobile = FALSE,
                      !.repository = Repository(Lit("https://h/r"), Lit("main"))],
   [BaseConfig EXCEPT !.structure = PagedStructure],
   [BaseConfig EXCEPT !.structure = PagedStructure,
                      !.navigation = Navigation(Order(<<Lit("a"), Lit("b")>>))],
   [BaseConfig EXCEPT !.structure =
      Structure(OtherSection, Section(<<Item(Lit("a"), Lit("A"), Lit("/a.html")),
                                        Item(Lit("b"), Lit("D"), Lit("/a.html"))>>),
                AbsentSection, AbsentSection)],
   [BaseConfig EXCEPT !.structure =
      Structure(AbsentSection, Section(<<Item(Lit("a"), Lit("A"), Lit("/a.html")),
                                         Item(Lit("b"), Lit("D"), Lit("/a.html"))>>),
                AbsentSection, AbsentSection)],
   NonObjectConfig(Null),
   [BaseConfig EXCEPT !.title = Undef, !.author = Undef],
   [BaseConfig EXCEPT !.version = Lit("1.0")],
   [BaseConfig EXCEPT !.structure =
      Structure(AbsentSection, Section(<<Item(Lit("A_1!"), Lit("T"), Undef)>>),
                AbsentSection, AbsentSection)],
   [BaseConfig EXCEPT !.navigation = Navigation(Order(<<Lit("a"), Lit("a")>>))],
   [BaseConfig EXCEPT !.navigation = Navigation(Order(<<Lit("a"), Lit("a")>>)),
                      !.repository = Repository(Lit("no-url"), Undef)],
   [BaseConfig EXCEPT !.repository = Repository(Lit("no-url"), Undef)]}

(***************************************************************************)
(* ErrorHandler                                                            *)
(***************************************************************************)
\* enhanceError: the message of the error that wraps `error`
enhanceError(error, operationName, ctx) ==
  <<"Failed during", operationName>>
    \o (IF ctx # "" THEN <<"in", ctx>> ELSE <<>>)
    \o <<":">> \o error

\* message m contains message sub
Contains(m, sub) ==
  \E i \in 0..(Len(m) - Len(sub)) : SubSeq(m, i + 1, i + Len(sub)) = sub

NotCalled == <<"validate was not called">>

OutputDirRetries == 2
SafeFsEnsureDirRetries == 1

\* a thrown value: an Error with its message, or undefined, the reason of a
\* promise rejected without one
ErrorOf(message) == [k |-> "Error", message |-> message]
NoReason == [k |-> "undefined", message |-> <<>>]

\* new Error(`Operation '${operationName}' timed out after ${timeout}ms`)
TimeoutError(operationName) == ErrorOf(<<"Operation", operationName, "timed out">>)

\* logError reads error.message: a TypeError when error is undefined
LogErrorThrows(error) == error.k # "Error"

\* what a call of safeExecute comes to: nothing yet, the result of an
\* invocation of the operation (v is its number), the result of the fallback,
\* null, or a thrown error with the error it wraps
NoResult == [k |-> "none", v |-> 0, message |-> <<>>, originalError |-> NoReason]
ResultOf(v) == [NoResult EXCEPT !.k = "value", !.v = v]
FallbackResult == [NoResult EXCEPT !.k = "fallback"]
NullResult == [NoResult EXCEPT !.k = "null"]
Raised(message, error) == [NoResult EXCEPT !.k = "raised", !.message = message,
                                             !.originalError = error]

\* TypeError: Cannot read properties of undefined (reading 'message')
TypeErrorRaised == Raised(<<"TypeError">>, NoReason)

\* the options of safeExecute; fallback is "absent", or a function that
\* returns, throws an Error or rejects without a reason
Options(retries, fallback, suppressError) ==
  [retries |-> retries, fallback |-> fallback, suppressError |-> suppressError]

\* safeExecute after the last attempt has failed with `error`: logError,
\* the fallback, then the enhanced error or null
LastAttemptFailed(error, operationName, options, ctx) ==
  IF ~options.suppressError /\ LogErrorThrows(error) THEN TypeErrorRaised
  ELSE IF options.fallback = "returns" THEN FallbackResult
  ELSE IF options.fallback = "rejects" THEN TypeErrorRaised
  ELSE IF ~options.suppressError
       THEN Raised(enhanceError(error.message, operationName, ctx), error)
  ELSE NullResult

\* getStats()
getStats(errors, warnings) ==
  [errors |-> errors, warnings |-> warnings,
   hasErrors |-> errors > 0, hasWarnings |-> warnings > 0]

\* a call of safeExecute: where it is, its options, the loop variable, and
\* its outcome; n counts the calls made on the handler
NoCall ==
  [pc |-> "idle", options |-> Options(0, "absent", FALSE), attempt |-> 0,
   lastError |-> NoReason, result |-> NoResult, n |-> 0]

\* one invocation of the operation: how executeWithTimeout saw it end, and
\* whether the operation is still running
Invocation(seen, running) == [seen |-> seen, running |-> running]

\* new ErrorHandler(), and no call of safeExecute yet
HandlerIdle ==
  /\ warningCount = 0
  /\ call = NoCall
  /\ invocations = <<>>
  /\ failedAttempts = 0
  /\ loggedWarnings = 0

(***************************************************************************)
(* TemplateEngine: the values of a data object                             *)
(***************************************************************************)
\* a value: t is its kind, s the characters of a string, n a number or a
\* boolean (1 = true), a the elements of an array, o the properties of an
\* object as a list of [key, val] in insertion order
JUndef == [t |-> "undefined", s |-> <<>>, n |-> 0, a |-> <<>>, o |-> <<>>]
JNull == [t |-> "null", s |-> <<>>, n |-> 0, a |-> <<>>, o |-> <<>>]
JBool(b) == [t |-> "boolean", s |-> <<>>, n |-> IF b THEN 1 ELSE 0, a |-> <<>>, o |-> <<>>]
JNum(k) == [t |-> "number", s |-> <<>>, n |-> k, a |-> <<>>, o |-> <<>>]
JStr(cs) == [t |-> "string", s |-> cs, n |-> 0, a |-> <<>>, o |-> <<>>]
JArr(es) == [t |-> "array", s |-> <<>>, n |-> 0, a |-> es, o |-> <<>>]
JObj(fs) == [t |-> "object", s |-> <<>>, n |-> 0, a |-> <<>>, o |-> fs]

\* one property of an object literal
Prop(key, val) == [key |-> key, val |-> val]

\* ToBoolean
JTruthy(v) ==
  CASE v.t \in {"undefined", "null"} -> FALSE
    [] v.t = "boolean"               -> v.n = 1
    [] v.t = "number"                -> v.n # 0
    [] v.t = "string"                -> v.s # <<>>
    [] OTHER                         -> TRUE

\* typeof v === 'object'
JIsObjectType(v) == v.t \in {"object", "array", "null"}

\* current[key] of a value that is neither null nor undefined: the property
\* of an object, the length and the elements of an array, the length and the
\* characters of a string, undefined for any other key
GetProp(v, key) ==
  LET elems == IF v.t = "array" THEN v.a ELSE IF v.t = "string" THEN v.s ELSE <<>>
      isIdx == \E i \in 1..Len(elems) : i <= Len(DigitChars) /\ key = DigitChars[i]
      idx   == CHOOSE i \in 1..Len(elems) : i <= Len(DigitChars) /\ key = DigitChars[i]
  IN IF v.t = "object" /\ \E i \in 1..Len(v.o) : v.o[i].key = key
     THEN v.o[CHOOSE i \in 1..Len(v.o) : v.o[i].key = key].val
     ELSE IF v.t \in {"array", "string"} /\ key = "length" THEN JNum(Len(elems))
     ELSE IF v.t = "array" /\ isIdx THEN v.a[idx]
     ELSE IF v.t = "string" /\ isIdx THEN JStr(<<v.s[idx]>>)
     ELSE JUndef

\* obj[key] = val: an own property is overwritten in place, a new one appended
SetProp(v, key, val) ==
  IF \E i \in 1..Len(v.o) : v.o[i].key = key
  THEN [v EXCEPT !.o = [i \in 1..Len(v.o) |->
                          IF v.o[i].key = key THEN Prop(key, val) ELSE v.o[i]]]
  ELSE [v EXCEPT !.o = Append(v.o, Prop(key, val))]

RECURSIVE WalkKeys(_, _)
\* for (const key of keys) { if (current == null) return undefined; current = current[key] }
WalkKeys(current, keys) ==
  IF keys = <<>> THEN current
  ELSE IF current.t \in {"null", "undefined"} THEN JUndef
  ELSE WalkKeys(GetProp(current, Head(keys)), Tail(keys))

\* getValueByPath(obj, path); keys is path.split('.')
getValueByPath(obj, keys) ==
  IF ~JTruthy(obj) \/ ~JIsObjectType(obj) THEN JUndef
  ELSE WalkKeys(obj, keys)

RECURSIVE JoinChars(_, _)
\* strs.join(sep) on lists of characters
JoinChars(strs, sep) ==
  IF strs = <<>> THEN <<>>
  ELSE IF Len(strs) = 1 THEN strs[1]
  ELSE strs[1] \o sep \o JoinChars(Tail(strs), sep)

\* String(v) of a value that is no array
ScalarString(v) ==
  CASE v.t = "string"    -> v.s
    [] v.t = "number"    -> <<DigitChars[v.n + 1]>>
    [] v.t = "boolean"   -> IF v.n = 1 THEN <<"t","r","u","e">> ELSE <<"f","a","l","s","e">>
    [] v.t = "undefined" -> <<"u","n","d","e","f","i","n","e","d">>
    [] v.t = "null"      -> <<"n","u","l","l">>
    [] OTHER             -> <<"[","o","b","j","e","c","t"," ","O","b","j","e","c","t","]">>

\* String(v), as String.prototype.replace applies it to what its callback
\* returns: an array is its elements joined by ',', null and undefined
\* elements being empty
JString(v) ==
  IF v.t = "array"
  THEN JoinChars([i \in 1..Len(v.a) |->
                    IF v.a[i].t \in {"null", "undefined"} THEN <<>>
                    ELSE ScalarString(v.a[i])], <<",">>)
  ELSE ScalarString(v)

(***************************************************************************)
(* TemplateEngine: templates and renderTemplate                            *)
(***************************************************************************)
\* a template is a list of tokens: a character of plain text, or one
\* {{...}} tag; p is the tag's path, already split at the dots
Text(c) == [k |-> "text", p |-> <<>>, c |-> c]
IfTag(p) == [k |-> "if", p |-> p, c |-> ""]
EndIfTag == [k |-> "endif", p |-> <<>>, c |-> ""]
ElseTag == [k |-> "else", p |-> <<>>, c |-> ""]
EachTag(p) == [k |-> "each", p |-> p, c |-> ""]
EndEachTag == [k |-> "endeach", p |-> <<>>, c |-> ""]
IndexTag == [k |-> "index", p |-> <<>>, c |-> ""]
VarTag(p) == [k |-> "var", p |-> p, c |-> ""]
ThisTag == VarTag(<<"this">>)

\* a string may hold a tag; the model writes such a tag as one character
TagInText == "{{title}}"

\* the characters of a string, as the passes that follow read them: the
\* result of a pass is a string again, and a tag a value brought in is a tag
TextOf(cs) ==
  [i \in 1..Len(cs) |-> IF cs[i] = TagInText THEN VarTag(<<"title">>) ELSE Text(cs[i])]

\* the first position of toks that holds a token of one of the kinds, 0 if none
FirstOfKind(toks, kinds) ==
  IF \E i \in 1..Len(toks) : toks[i].k \in kinds
  THEN CHOOSE i \in 1..Len(toks) :
         toks[i].k \in kinds /\ \A j \in 1..(i-1) : toks[j].k \notin kinds
  ELSE 0

\* getValueByPath(...) || '' as the replacement of a tag
ValueOrEmpty(v) == IF JTruthy(v) THEN TextOf(JString(v)) ELSE <<>>

RECURSIVE IfPass(_, _)
\* replace(/\{\{#if\s+([^}]+)\}\}([\s\S]*?)\{\{\/if\}\}/g, ...): an opening tag
\* reaches to the first {{/if}} after it; what is put in is not scanned again
IfPass(toks, dat) ==
  IF toks = <<>> THEN <<>>
  ELSE LET close == FirstOfKind(Tail(toks), {"endif"})
       IN IF Head(toks).k = "if" /\ close > 0
          THEN (IF JTruthy(getValueByPath(dat, Head(toks).p))
                THEN SubSeq(toks, 2, close) ELSE <<>>)
               \o IfPass(SubSeq(toks, close + 2, Len(toks)), dat)
          ELSE <<Head(toks)>> \o IfPass(Tail(toks), dat)

RECURSIVE ItemPass(_, _, _)
\* the body of an each block for one element: {{@index}}, then every tag
\* without '@' in it; the key of a tag that is no variable is no property
ItemPass(content, item, index) ==
  IF content = <<>> THEN <<>>
  ELSE LET tok == Head(content)
       IN (CASE tok.k = "text"  -> <<tok>>
             [] tok.k = "index" -> TextOf(<<DigitChars[index + 2]>>)
             [] tok.k = "var"   -> IF tok.p = <<"this">>
                                   THEN TextOf(JString(item))
                                   ELSE ValueOrEmpty(getValueByPath(item, tok.p))
             [] OTHER           -> <<>>)
          \o ItemPass(Tail(content), item, index)

RECURSIVE MapItems(_, _, _)
\* array.map((item, index) => ...).join(''), from element `from` on
MapItems(content, array, from) ==
  IF from > Len(array) THEN <<>>
  ELSE ItemPass(content, array[from], from - 1) \o MapItems(content, array, from + 1)

RECURSIVE EachPass(_, _)
\* replace(/\{\{#each\s+([^}]+)\}\}([\s\S]*?)\{\{\/each\}\}/g, ...)
EachPass(toks, dat) ==
  IF toks = <<>> THEN <<>>
  ELSE LET close == FirstOfKind(Tail(toks), {"endeach"})
           array == getValueByPath(dat, Head(toks).p)
       IN IF Head(toks).k = "each" /\ close > 0
          THEN (IF array.t = "array"
                THEN MapItems(SubSeq(toks, 2, close), array.a, 1) ELSE <<>>)
               \o EachPass(SubSeq(toks, close + 2, Len(toks)), dat)
          ELSE <<Head(toks)>> \o EachPass(Tail(toks), dat)

RECURSIVE ElsePass(_)
\* replace(/\{\{else\}\}([\s\S]*?)(?=\{\{\/)/g, (match, content) => content):
\* an {{else}} followed somewhere by a closing tag is dropped, the text up
\* to that tag is kept and not scanned again
ElsePass(toks) ==
  IF toks = <<>> THEN <<>>
  ELSE LET close == FirstOfKind(Tail(toks), {"endif", "endeach"})
       IN IF Head(toks).k = "else" /\ close > 0
          THEN SubSeq(toks, 2, close) \o ElsePass(SubSeq(toks, close + 1, Len(toks)))
          ELSE <<Head(toks)>> \o ElsePass(Tail(toks))

RECURSIVE VarPass(_, _)
\* replace(/\{\{([^}#/@]+)\}\}/g, ...): every tag without '#', '/' and '@',
\* {{else}} and {{this}} among them
VarPass(toks, dat) ==
  IF toks = <<>> THEN <<>>
  ELSE LET tok == Head(toks)
       IN (CASE tok.k = "var"  -> ValueOrEmpty(getValueByPath(dat, tok.p))
             [] tok.k = "else" -> ValueOrEmpty(getValueByPath(dat, <<"else">>))
             [] OTHER          -> <<tok>>)
          \o VarPass(Tail(toks), dat)

\* renderTemplate(template, data)
renderTemplate(template, dat) ==
  VarPass(ElsePass(EachPass(IfPass(template, dat), dat)), dat)

(***************************************************************************)
(* TemplateEngine: preprocessData, the registry and render                 *)
(***************************************************************************)
LowerOf(c) ==
  IF c \in Upper THEN CHOOSE l \in Lower : UpperOf(l) = c ELSE c

RECURSIVE CollapseDashes(_)
\* replace(/-+/g, '-')
CollapseDashes(cs) ==
  IF Len(cs) < 2 THEN cs
  ELSE IF cs[1] = "-" /\ cs[2] = "-" THEN CollapseDashes(Tail(cs))
  ELSE <<cs[1]>> \o CollapseDashes(Tail(cs))

\* replace(/^-|-$/g, '')
TrimDash(cs) ==
  LET front == IF cs # <<>> /\ cs[1] = "-" THEN Tail(cs) ELSE cs
  IN IF front # <<>> /\ front[Len(front)] = "-"
     THEN SubSeq(front, 1, Len(front) - 1) ELSE front

\* title.toLowerCase().replace(/[^a-z0-9...]/g, '-').replace(/-+/g, '-').replace(/^-|-$/g, '')
PackageName(cs) ==
  TrimDash(CollapseDashes(
    [i \in 1..Len(cs) |->
       IF LowerOf(cs[i]) \in Lower \cup Digit THEN LowerOf(cs[i]) ELSE "-"]))

GitHubHost == <<"g","i","t","h","u","b",".","c","o","m","/">>

\* the characters of cs from position i up to the next '/' or the end
UpToSlash(cs, i) ==
  LET stops == {j \in i..Len(cs) : cs[j] = "/"}
      last  == IF stops = {} THEN Len(cs)
               ELSE (CHOOSE j \in stops : \A k \in stops : j <= k) - 1
  IN SubSeq(cs, i, last)

\* url.match(/github\.com\/([^/]+)\/([^/]+)/) at position i
GitHubMatchAt(cs, i) ==
  LET ownerAt == i + Len(GitHubHost)
      owner   == UpToSlash(cs, ownerAt)
      nameAt  == ownerAt + Len(owner) + 1
  IN /\ i + Len(GitHubHost) - 1 <= Len(cs)
     /\ SubSeq(cs, i, i + Len(GitHubHost) - 1) = GitHubHost
     /\ owner # <<>>
     /\ nameAt - 1 <= Len(cs) /\ cs[nameAt - 1] = "/"
     /\ UpToSlash(cs, nameAt) # <<>>

GitHubMatches(cs) == \E i \in 1..Len(cs) : GitHubMatchAt(cs, i)

GitHubMatchStart(cs) ==
  CHOOSE i \in 1..Len(cs) :
    GitHubMatchAt(cs, i) /\ \A j \in 1..(i-1) : ~GitHubMatchAt(cs, j)

\* match[1]
GitHubOwner(cs) == UpToSlash(cs, GitHubMatchStart(cs) + Len(GitHubHost))

\* match[2].replace(/\.git$/, '')
GitHubName(cs) ==
  LET name == UpToSlash(cs, GitHubMatchStart(cs) + Len(GitHubHost)
                              + Len(GitHubOwner(cs)) + 1)
      n    == Len(name)
  IN IF n >= 4 /\ SubSeq(name, n - 3, n) = <<".","g","i","t">>
     THEN SubSeq(name, 1, n - 4) ELSE name

\* processed.title.toLowerCase is called on a truthy title that is no string
TitleThrows(dat) ==
  JTruthy(GetProp(dat, "title")) /\ GetProp(dat, "title").t # "string"

\* processed.repository?.url
RepositoryUrl(dat) ==
  IF GetProp(dat, "repository").t \in {"null", "undefined"} THEN JUndef
  ELSE GetProp(GetProp(dat, "repository"), "url")

\* processed.repository.url.match is called on a truthy url that is no string
UrlThrows(dat) == JTruthy(RepositoryUrl(dat)) /\ RepositoryUrl(dat).t # "string"

\* preprocessData throws a TypeError
PreprocessThrows(dat) == TitleThrows(dat) \/ UrlThrows(dat)

\* owner and name are assigned to processed.repository
RepositoryIsWritten(dat) ==
  /\ ~PreprocessThrows(dat)
  /\ JTruthy(RepositoryUrl(dat))
  /\ GitHubMatches(RepositoryUrl(dat).s)

\* processed.repository after the two assignments
WrittenRepository(dat) ==
  LET url == RepositoryUrl(dat).s
  IN SetProp(SetProp(GetProp(dat, "repository"), "owner", JStr(GitHubOwner(url))),
             "name", JStr(GitHubName(url)))

\* x || d
OrDefault(v, d) == IF JTruthy(v) THEN v ELSE d

\* the object preprocessData returns: { ...data } with the defaults, the
\* date, the package name and the repository
preprocessData(dat, date) ==
  LET p1 == SetProp(dat, "version",
                    OrDefault(GetProp(dat, "version"), JStr(<<"1",".","0",".","0">>)))
      p2 == SetProp(p1, "language", OrDefault(GetProp(dat, "language"), JStr(<<"j","a">>)))
      p3 == SetProp(p2, "license", OrDefault(GetProp(dat, "license"), JStr(<<"M","I","T">>)))
      p4 == SetProp(p3, "currentDate", JStr(date))
      p5 == IF JTruthy(GetProp(dat, "title"))
            THEN SetProp(p4, "packageName", JStr(PackageName(GetProp(dat, "title").s)))
            ELSE p4
  IN IF RepositoryIsWritten(dat)
     THEN SetProp(p5, "repository", WrittenRepository(dat)) ELSE p5

\* the caller's data object after preprocessData: { ...data } copies the
\* reference held by data.repository, so the object the two assignments
\* write to is the caller's
DataAfterPreprocess(dat) ==
  IF RepositoryIsWritten(dat)
  THEN SetProp(dat, "repository", WrittenRepository(dat)) ELSE dat

\* an entry of the registry: this.templates.get(name) is undefined or a string
NoTemplate == [k |-> "absent", toks |-> <<>>]
Template(toks) == [k |-> "string", toks |-> toks]

\* the built-in templates, with their plain text cut down to single characters
IndexTemplate ==
  <<VarTag(<<"title">>), VarTag(<<"description">>),
    IfTag(<<"structure", "chapters">>), EachTag(<<"structure", "chapters">>),
    Text("-"), IndexTag, VarTag(<<"title">>), VarTag(<<"id">>), EndEachTag, EndIfTag,
    IfTag(<<"structure", "appendices">>), Text("#"),
    EachTag(<<"structure", "appendices">>),
    Text("-"), IndexTag, VarTag(<<"title">>), VarTag(<<"id">>), EndEachTag, EndIfTag,
    VarTag(<<"author">>), VarTag(<<"version">>), VarTag(<<"currentDate">>)>>

ChapterTemplate ==
  <<VarTag(<<"chapter", "title">>), VarTag(<<"chapter", "id">>),
    IfTag(<<"chapter", "description">>), VarTag(<<"chapter", "description">>), EndIfTag,
    IfTag(<<"chapter", "objectives">>), EachTag(<<"chapter", "objectives">>),
    Text("-"), ThisTag, EndEachTag, ElseTag, Text("P"), EndIfTag,
    IfTag(<<"chapter", "exercises">>), Text("#"), EachTag(<<"chapter", "exercises">>),
    IndexTag, ThisTag, EndEachTag, EndIfTag>>

ConfigTemplate ==
  <<VarTag(<<"title">>), VarTag(<<"description">>), VarTag(<<"author">>),
    VarTag(<<"version">>), VarTag(<<"language">>),
    IfTag(<<"repository", "url">>), VarTag(<<"repository", "owner">>), Text("/"),
    VarTag(<<"repository", "name">>), EndIfTag>>

PackageTemplate ==
  <<VarTag(<<"packageName">>), VarTag(<<"version">>), VarTag(<<"description">>),
    VarTag(<<"language">>), VarTag(<<"author">>), VarTag(<<"license">>),
    VarTag(<<"repository", "url">>)>>

ReadmeTemplate ==
  <<VarTag(<<"title">>), VarTag(<<"description">>), VarTag(<<"language">>),
    IfTag(<<"structure", "chapters">>), Text("#"),
    EachTag(<<"structure", "chapters">>), Text("-"), IndexTag, VarTag(<<"title">>),
    IfTag(<<"description">>), VarTag(<<"description">>), EndIfTag, EndEachTag, EndIfTag,
    IfTag(<<"structure", "appendices">>), Text("#"),
    EachTag(<<"structure", "appendices">>), Text("-"), IndexTag, VarTag(<<"title">>),
    EndEachTag, EndIfTag,
    VarTag(<<"author">>), VarTag(<<"license">>), VarTag(<<"version">>)>>

BuiltInNames == {"index.md", "chapter.md", "_config.yml", "package.json", "README.md"}

\* a name addTemplate is called with
CustomNames == {"custom.md"}

TemplateNames == BuiltInNames \cup CustomNames

\* loadBuiltInTemplates
loadBuiltInTemplates ==
  [name \in TemplateNames |->
     CASE name = "index.md"     -> Template(IndexTemplate)
       [] name = "chapter.md"   -> Template(ChapterTemplate)
       [] name = "_config.yml"  -> Template(ConfigTemplate)
       [] name = "package.json" -> Template(PackageTemplate)
       [] name = "README.md"    -> Template(ReadmeTemplate)
       [] OTHER                 -> NoTemplate]

\* if (!template): the name has no entry, or its template is the empty string
TemplateNotFound(registry, name) ==
  registry[name].k = "absent" \/ registry[name].toks = <<>>

\* what a call of render comes to, with the arguments it was given
NoRender ==
  [k |-> "none", out |-> <<>>, name |-> "", given |-> JUndef, template |-> NoTemplate]

render(registry, name, dat, date) ==
  [k     |-> IF TemplateNotFound(registry, name) THEN "notFound"
             ELSE IF PreprocessThrows(dat) THEN "TypeError"
             ELSE "string",
   out   |-> IF TemplateNotFound(registry, name) \/ PreprocessThrows(dat) THEN <<>>
             ELSE renderTemplate(registry[name].toks, preprocessData(dat, date)),
   name  |-> name,
   given |-> dat,
   template |-> registry[name]]

\* the data object after render(name, data)
DataAfterRender(registry, name, dat) ==
  IF TemplateNotFound(registry, name) THEN dat ELSE DataAfterPreprocess(dat)

(***************************************************************************)
(* TemplateEngine: the calls made on one engine                            *)
(***************************************************************************)
\* an object literal: properties whose value is undefined are left out
Props(ps) == JObj(SelectSeq(ps, LAMBDA pr : pr.val.t # "undefined"))

GitHubUrl ==
  <<"h","t","t","p","s",":","/","/">> \o GitHubHost \o <<"o","/","r",".","g","i","t">>

\* values of a condition: the falsy ones, and truthy ones of every kind
ConditionValues ==
  {JUndef, JNull, JBool(FALSE), JNum(0), JStr(<<>>),
   JBool(TRUE), JNum(1), JStr(<<"x">>), JArr(<<>>), JObj(<<>>)}

\* values of the path of an each block
ItemsValues ==
  {JUndef, JArr(<<>>), JArr(<<JStr(<<"x">>), JStr(<<"y">>)>>),
   JArr(<<JStr(<<"x">>), JStr(<<TagInText>>)>>), JArr(<<JNum(7), JNull>>),
   JStr(<<"x","y">>), JObj(<<>>), JNull,
   JArr(<<Props(<<Prop("title", JStr(<<"x">>))>>), Props(<<>>), JStr(<<"y">>)>>),
   JArr(<<Props(<<Prop("title", JNum(0))>>), Props(<<Prop("title", JBool(FALSE))>>),
          Props(<<Prop("title", JNull)>>)>>),
   JArr(<<Props(<<Prop("title", JStr(<<TagInText>>))>>)>>)}

DataTitleValues == {JUndef, JStr(<<"T","-","a">>), JNum(5)}

DataRepositoryValues ==
  {JUndef, JNull,
   Props(<<Prop("url", JStr(GitHubUrl))>>),
   Props(<<Prop("url", JStr(Chars("https://h/r")))>>),
   Props(<<Prop("url", JNum(5))>>)}

\* a configuration value as a value of the data object
JOf(v) ==
  CASE v.t = "undefined" -> JUndef
    [] v.t = "null"      -> JNull
    [] v.t = "boolean"   -> JBool(v.n = 1)
    [] v.t = "number"    -> JNum(v.n)
    [] v.t = "string"    -> JStr(v.s)
    [] OTHER             -> JObj(<<>>)

\* one item of a section list
ItemData(item) ==
  IF IsNullItem(item) THEN JNull
  ELSE Props(<<Prop("id", JOf(item.id)), Prop("title", JOf(item.title)),
               Prop("path", JOf(item.path))>>)

\* a section list; a section that is no array is written as an object
SectionData(sec) ==
  IF sec.k = "absent" THEN JUndef
  ELSE IF sec.k = "array" THEN JArr([i \in 1..Len(sec.items) |-> ItemData(sec.items[i])])
  ELSE JObj(<<>>)

\* this.templateEngine.render('index.md', config): the configuration as the
\* data object of render; navigation is read by no template
DataOf(cfg) ==
  Props(<<Prop("title", JOf(cfg.title)), Prop("description", JOf(cfg.description)),
          Prop("author", JOf(cfg.author)), Prop("version", JOf(cfg.version)),
          Prop("language", JOf(cfg.language)),
          Prop("structure",
               IF cfg.structure.k = "absent" THEN JUndef
               ELSE Props(<<Prop("introduction", SectionData(cfg.structure.introduction)),
                            Prop("chapters", SectionData(cfg.structure.chapters)),
                            Prop("conclusion", SectionData(cfg.structure.conclusion)),
                            Prop("appendices", SectionData(cfg.structure.appendices))>>)),
          Prop("repository",
               IF cfg.repository.k = "absent" THEN JUndef
               ELSE Props(<<Prop("url", JOf(cfg.repository.url)),
                            Prop("branch", JOf(cfg.repository.branch))>>))>>)

\* the configurations the built-in templates are rendered with
RenderedConfigs ==
  {BaseConfig,
   [BaseConfig EXCEPT !.structure = PagedStructure],
   [BaseConfig EXCEPT !.structure =
      Structure(AbsentSection,
                Section(<<Item(Lit("a"), Str(<<TagInText>>), Lit("/a.html"))>>),
                AbsentSection,
                Section(<<Item(Lit("b"), Lit("D"), Lit("/b.html"))>>))]}

\* the data objects render is called with
DataObjects ==
  {DataOf(cfg) : cfg \in RenderedConfigs} \cup
  {Props(<<Prop("title", JStr(<<"T">>)), Prop("p", c),
           Prop("items", JArr(<<JStr(<<"x">>), JStr(<<"y">>)>>))>>) :
     c \in ConditionValues}
  \cup {Props(<<Prop("title", JStr(<<"T">>)), Prop("p", JBool(TRUE)), Prop("items", i)>>) :
          i \in ItemsValues}
  \cup {Props(<<Prop("title", t), Prop("repository", r)>>) :
          t \in DataTitleValues, r \in DataRepositoryValues}

\* {{#if p}}A{{else}}B{{/if}}
IfElseTemplate == <<IfTag(<<"p">>), Text("A"), ElseTag, Text("B"), EndIfTag>>

\* {{#if p}}A{{/if}}
IfTemplate == <<IfTag(<<"p">>), Text("A"), EndIfTag>>

\* {{#each items}}{{@index}}:{{this}}\n{{/each}}
EachTemplate ==
  <<EachTag(<<"items">>), IndexTag, Text(":"), ThisTag, Text("\n"), EndEachTag>>

\* {{missing.path}}
MissingTemplate == <<VarTag(<<"missing", "path">>)>>

\* {{title.x}}|{{repository.url.x}}: paths that leave a string, null, a number
DeadEndTemplate ==
  <<VarTag(<<"title", "x">>), Text("|"), VarTag(<<"repository", "url", "x">>)>>

\* {{title}}/{{repository.owner}}
OwnerTemplate == <<VarTag(<<"title">>), Text("/"), VarTag(<<"repository", "owner">>)>>

\* {{p}}
VariableTemplate == <<VarTag(<<"p">>)>>

\* {{#each items}}{{title}};{{/each}}
EachFieldTemplate ==
  <<EachTag(<<"items">>), VarTag(<<"title">>), Text(";"), EndEachTag>>

\* the templates addTemplate is called with; the first is the empty string
TemplateTexts ==
  {<<>>, IfElseTemplate, IfTemplate, EachTemplate, MissingTemplate,
   DeadEndTemplate, OwnerTemplate, VariableTemplate, EachFieldTemplate}

\* new Date().toISOString().split('T')[0], whatever the day is
Dates == {<<"d","1">>, <<"d","2">>}

\* new TemplateEngine(), and no call of render yet
EngineIdle ==
  /\ templates = loadBuiltInTemplates
  /\ rendered = NoRender

(***************************************************************************)
(* The calls made directly on the validator and on the generator           *)
(***************************************************************************)
\* const results = { isValid: true, errors: [], warnings: [] }
NoDetails == [isValid |-> TRUE, errors |-> <<>>, warnings |-> <<>>]

\* the warnings of getValidationDetails, in the order they are pushed
Warnings(cfg) ==
  (IF cfg.structure.k # "absent" /\ cfg.structure.chapters.k = "absent"
   THEN <<"no chapters">> ELSE <<>>)
  \o (IF ~Truthy(cfg.version) THEN <<"no version">> ELSE <<>>)
  \o (IF cfg.repository.k = "absent" THEN <<"no repository">> ELSE <<>>)

\* getValidationDetails(config), when it returns
getValidationDetails(cfg) ==
  [isValid  |-> validate(cfg) = <<>>,
   errors   |-> IF validate(cfg) = <<>> THEN <<>> ELSE <<validate(cfg)>>,
   warnings |-> Warnings(cfg)]

\* a version string in three pieces: what is before the numbers, the numbers
\* that the dots separate, and what follows them
Version(prefix, parts, suffix) == [prefix |-> prefix, parts |-> parts, suffix |-> suffix]

\* the string of a version
VersionText(v) == v.prefix \o JoinChars(v.parts, <<".">>) \o v.suffix

\* no call yet
NoReturn ==
  [fn |-> "", key |-> <<>>, version |-> Version(<<>>, <<>>, <<>>), val |-> Undef,
   threw |-> FALSE, obj |-> JUndef, path |-> <<>>, found |-> JUndef]

InitCommon ==
  /\ returned = NoReturn
  /\ details = NoDetails
  /\ validateResult = NotCalled
  /\ navigationOrder = <<>>
  /\ navigationData = EmptyMap
  /\ thrown = <<>>
  /\ fsWrites = <<>>
  /\ errorCount = 0
  /\ attempt = [outer |-> 0, inner |-> 0]
  /\ context = ""
  /\ HandlerIdle

InitCall ==
  /\ config \in CallConfigs
  /\ mode = "call"
  /\ pc = "call"
  /\ InitCommon
  /\ EngineIdle /\ data = JObj(<<>>)

\* validator.validate(config)
CallValidate ==
  /\ mode = "call" /\ pc = "call"
  /\ validateResult' = validate(config)
  /\ pc' = "validated"
  /\ UNCHANGED <<handlerVars, returned, details, engineVars, config, mode, navigationOrder, navigationData, thrown, fsWrites,
                 errorCount, attempt, context>>

\* reading a property of null or undefined throws
IsNullish(cfg) == cfg.self.t \in {"null", "undefined"}

\* validator.getValidationDetails(config): validate is called and its error
\* caught; config.structure is then read outside the try block
CallGetValidationDetails ==
  /\ mode = "call" /\ pc = "call"
  /\ validateResult' = validate(config)
  /\ IF IsNullish(config)
     THEN /\ thrown' = <<"TypeError">>
          /\ pc' = "detailsFailed"
          /\ UNCHANGED details
     ELSE /\ details' = getValidationDetails(config)
          /\ pc' = "details"
          /\ UNCHANGED thrown
  /\ UNCHANGED <<handlerVars, returned, engineVars, config, mode, navigationOrder, navigationData,
                 fsWrites, errorCount, attempt, context>>

\* generator.generateDefaultNavigationOrder(config)
CallGenerateDefaultNavigationOrder ==
  /\ mode = "call" /\ pc = "validated"
  /\ IF IsNullish(config) \/ DefaultOrderThrows(config)
     THEN /\ thrown' = <<"TypeError">>
          /\ pc' = "orderFailed"
          /\ UNCHANGED navigationOrder
     ELSE /\ navigationOrder' =
               [i \in 1..Len(generateDefaultNavigationOrder(config)) |->
                  Str(generateDefaultNavigationOrder(config)[i])]
          /\ pc' = "ordered"
          /\ UNCHANGED thrown
  /\ UNCHANGED <<handlerVars, returned, details, engineVars, config, mode, validateResult, navigationData, fsWrites,
                 errorCount, attempt, context>>

\* the body of generateNavigationData: the _data directory, the order, the
\* entries and navigation.json; any error is logged and thrown again
GenerateNavigationDataBody(failedPc, donePc) ==
  \E dirOk \in BOOLEAN, fileOk \in BOOLEAN :
    IF ~dirOk
    THEN /\ thrown' = <<"cannot create directory", "_data">>
         /\ pc' = failedPc
         /\ UNCHANGED <<navigationOrder, navigationData, fsWrites>>
    ELSE IF IsNullish(config) \/ NavigationThrows(config)
    THEN /\ thrown' = <<"TypeError">>
         /\ pc' = failedPc
         /\ fsWrites' = Append(fsWrites, "_data")
         /\ UNCHANGED <<navigationOrder, navigationData>>
    ELSE IF ~fileOk
    THEN /\ thrown' = <<"cannot write", "navigation.json">>
         /\ pc' = failedPc
         /\ fsWrites' = Append(fsWrites, "_data")
         /\ UNCHANGED <<navigationOrder, navigationData>>
    ELSE /\ navigationOrder' = NavigationOrder(config)
         /\ navigationData' = BuildEntries(config, NavigationOrder(config), 1, EmptyMap)
         /\ fsWrites' = fsWrites \o <<"_data", "navigation.json">>
         /\ pc' = donePc
         /\ UNCHANGED thrown

\* generator.generateNavigationData(config, dir)
CallGenerateNavigationData ==
  /\ mode = "call" /\ pc \in {"validated", "ordered"}
  /\ GenerateNavigationDataBody("failed", "done")
  /\ UNCHANGED <<handlerVars, returned, details, engineVars, config, mode, validateResult, errorCount, attempt, context>>

NextCall ==
  \/ CallValidate
  \/ CallGetValidationDetails
  \/ CallGenerateDefaultNavigationOrder
  \/ CallGenerateNavigationData

SpecCall == InitCall /\ [][NextCall]_vars

(***************************************************************************)
(* BookGenerator.createBook                                                *)
(***************************************************************************)
Init ==
  /\ config \in RunConfigs
  /\ mode \in {"create", "update"}
  /\ pc = "start"
  /\ InitCommon
  /\ EngineIdle /\ data = JObj(<<>>)

\* an operation of createBook fails for good: its safeExecute logs the error
\* and throws the enhanced one; the safeExecute of 'book creation' counts it,
\* runs its fallback, which throws, and throws its own enhanced error
CreateAbort(error, operationName) ==
  /\ thrown' = enhanceError(enhanceError(error, operationName, context),
                            "book creation", context)
  /\ errorCount' = errorCount + 2
  /\ pc' = "failed"

\* errorHandler.reset(); errorHandler.setContext('createBook'); validateInput
CreateBegin ==
  /\ mode = "create" /\ pc = "start"
  /\ errorCount' = 0
  /\ context' = "createBook"
  /\ pc' = "load"
  /\ UNCHANGED <<handlerVars, returned, details, engineVars, config, mode, validateResult, navigationOrder, navigationData,
                 thrown, fsWrites, attempt>>

\* safeExecute(() => this.loadConfig(configPath), 'loading configuration')
CreateLoadConfig ==
  /\ mode = "create" /\ pc = "load"
  /\ \E ok \in BOOLEAN :
       IF ok THEN /\ pc' = "validate"
                  /\ UNCHANGED <<thrown, errorCount>>
       ELSE CreateAbort(<<"cannot read the configuration file">>,
                        "loading configuration")
  /\ UNCHANGED <<handlerVars, returned, details, engineVars, config, mode, validateResult, navigationOrder, navigationData,
                 fsWrites, attempt, context>>

\* faulty variant of CreateValidate: the error of validate is swallowed
CreateValidateIgnoringError ==
  /\ mode = "create" /\ pc = "validate"
  /\ validateResult' = validate(config)
  /\ pc' = "outputDir"
  /\ UNCHANGED <<thrown, errorCount>>
  /\ UNCHANGED <<handlerVars, returned, details, engineVars, config, mode, navigationOrder, navigationData, fsWrites,
                 attempt, context>>

\* safeExecute(() => this.validator.validate(config), 'validating configuration')
CreateValidate ==
  /\ mode = "create" /\ pc = "validate"
  /\ validateResult' = validate(config)
  /\ IF validate(config) = <<>>
     THEN /\ pc' = "outputDir"
          /\ UNCHANGED <<thrown, errorCount>>
     ELSE CreateAbort(validate(config), "validating configuration")
  /\ UNCHANGED <<handlerVars, returned, details, engineVars, config, mode, navigationOrder, navigationData, fsWrites,
                 attempt, context>>

\* safeExecute(() => this.safeFs.ensureDir(outputPath), 'creating output
\* directory', { retries: 2 }); safeFs.ensureDir is itself a safeExecute with
\* retries: 1. One step is one call of fs.ensureDir.
CreateOutputDir ==
  /\ mode = "create" /\ pc = "outputDir"
  /\ \E ok \in BOOLEAN :
       IF ok
       THEN /\ fsWrites' = Append(fsWrites, "outputDir")
            /\ pc' = "structure"
            /\ attempt' = [outer |-> 0, inner |-> 0]
            /\ UNCHANGED <<thrown, errorCount>>
       ELSE IF attempt.inner < SafeFsEnsureDirRetries
       THEN /\ attempt' = [attempt EXCEPT !.inner = @ + 1]
            /\ errorCount' = errorCount + 1
            /\ UNCHANGED <<thrown, fsWrites, pc>>
       ELSE IF attempt.outer < OutputDirRetries
       THEN /\ attempt' = [outer |-> attempt.outer + 1, inner |-> 0]
            /\ errorCount' = errorCount + 2
            /\ UNCHANGED <<thrown, fsWrites, pc>>
       ELSE /\ thrown' =
                 enhanceError(
                   enhanceError(
                     enhanceError(<<"cannot create directory">>,
                                  "creating directory", context),
                     "creating output directory", context),
                   "book creation", context)
            /\ errorCount' = errorCount + 3
            /\ pc' = "failed"
            /\ UNCHANGED <<fsWrites, attempt>>
  /\ UNCHANGED <<handlerVars, returned, details, engineVars, config, mode, validateResult, navigationOrder, navigationData,
                 context>>

\* one operation of createBook that writes `what` and is followed by `next`;
\* when it fails, what it wrote before failing stays written
CreateWrite(at, operationName, what, next) ==
  /\ mode = "create" /\ pc = at
  /\ \E ok \in BOOLEAN, partial \in BOOLEAN :
       IF ok
       THEN /\ fsWrites' = Append(fsWrites, what)
            /\ pc' = next
            /\ UNCHANGED <<thrown, errorCount>>
       ELSE /\ fsWrites' = IF partial THEN Append(fsWrites, what) ELSE fsWrites
            /\ CreateAbort(<<"cannot write", what>>, operationName)
  /\ UNCHANGED <<handlerVars, returned, details, engineVars, config, mode, validateResult, navigationOrder, navigationData,
                 attempt, context>>

\* safeExecute(() => this.generateBookStructure(config, outputPath), ...)
CreateStructure ==
  CreateWrite("structure", "generating book structure", "directories", "index")

\* generateFiles: generateIndexFile
CreateIndexFile ==
  CreateWrite("index", "generating files", "index.md", "configFiles")

\* generateFiles: generateConfigFiles
CreateConfigFiles ==
  CreateWrite("configFiles", "generating files", "book-config.json, _config.yml",
              "chapterFiles")

\* generateFiles: generateChapterFiles
CreateChapterFiles ==
  CreateWrite("chapterFiles", "generating files", "chapter files", "navigation")

\* generateFiles: generateNavigationData
CreateNavigationData ==
  /\ mode = "create" /\ pc = "navigation"
  /\ GenerateNavigationDataBody("navigationFailed", "package")
  /\ UNCHANGED <<handlerVars, returned, details, engineVars, config, mode, validateResult, errorCount, attempt, context>>

\* the error of generateNavigationData reaches the safeExecute of
\* 'generating files'
CreateNavigationFailed ==
  /\ mode = "create" /\ pc = "navigationFailed"
  /\ CreateAbort(thrown, "generating files")
  /\ UNCHANGED <<handlerVars, returned, details, engineVars, config, mode, validateResult, navigationOrder, navigationData,
                 fsWrites, attempt, context>>

\* generateFiles: generatePackageFile
CreatePackageFile ==
  CreateWrite("package", "generating files", "package.json",
              IF config.githubPages THEN "githubPages"
              ELSE IF config.mobile THEN "mobile" ELSE "safeJs")

\* generateFiles: gitHubPagesHandler.setupGitHubPages
CreateGitHubPages ==
  CreateWrite("githubPages", "generating files", "github pages files",
              IF config.mobile THEN "mobile" ELSE "safeJs")

\* generateFiles: mobileOptimizer.optimizeForMobile
CreateMobile ==
  CreateWrite("mobile", "generating files", "mobile files", "safeJs")

\* generateFiles: setupSafeJavaScript, a safeExecute of its own
CreateSafeJavaScript ==
  /\ mode = "create" /\ pc = "safeJs"
  /\ \E ok \in BOOLEAN, partial \in BOOLEAN :
       IF ok
       THEN /\ fsWrites' = Append(fsWrites, "shared/assets/js")
            /\ pc' = "templates"
            /\ UNCHANGED <<thrown, errorCount>>
       ELSE /\ fsWrites' = IF partial THEN Append(fsWrites, "shared/assets/js")
                           ELSE fsWrites
            /\ thrown' =
                 enhanceError(
                   enhanceError(
                     enhanceError(<<"cannot write", "shared/assets/js">>,
                                  "setupSafeJavaScript", context),
                     "generating files", context),
                   "book creation", context)
            /\ errorCount' = errorCount + 3
            /\ pc' = "failed"
  /\ UNCHANGED <<handlerVars, returned, details, engineVars, config, mode, validateResult, navigationOrder, navigationData,
                 attempt, context>>

\* generateFiles: copyTemplateFiles; then createBook returns { success: true }
CreateTemplateFiles ==
  CreateWrite("templates", "generating files", "layouts, includes, assets", "done")

(***************************************************************************)
(* BookGenerator.updateBook                                                *)
(***************************************************************************)
\* an error of updateBook is logged and thrown again as it is
UpdateAbort(error) ==
  /\ thrown' = error
  /\ pc' = "failed"

\* const config = await this.loadConfig(configPath)
UpdateLoadConfig ==
  /\ mode = "update" /\ pc = "start"
  /\ \E ok \in BOOLEAN :
       IF ok THEN pc' = "validate" /\ UNCHANGED thrown
       ELSE UpdateAbort(<<"cannot read the configuration file">>)
  /\ UNCHANGED <<handlerVars, returned, details, engineVars, config, validateResult, mode, navigationOrder, navigationData,
                 fsWrites, errorCount, attempt, context>>

\* this.validator.validate(config)
UpdateValidate ==
  /\ mode = "update" /\ pc = "validate"
  /\ validateResult' = validate(config)
  /\ IF validate(config) = <<>>
     THEN pc' = "exists" /\ UNCHANGED thrown
     ELSE UpdateAbort(validate(config))
  /\ UNCHANGED <<handlerVars, returned, details, engineVars, config, mode, navigationOrder, navigationData, fsWrites,
                 errorCount, attempt, context>>

\* if (!(await this.fsUtils.exists(bookPath))) throw ...
UpdateCheckExists ==
  /\ mode = "update" /\ pc = "exists"
  /\ \E exists \in BOOLEAN :
       IF exists THEN pc' = "backup" /\ UNCHANGED thrown
       ELSE UpdateAbort(<<"the book directory does not exist">>)
  /\ UNCHANGED <<handlerVars, returned, details, engineVars, config, validateResult, mode, navigationOrder, navigationData,
                 fsWrites, errorCount, attempt, context>>

\* one operation of updateBook that writes `what` and is followed by `next`
UpdateWrite(at, what, next) ==
  /\ mode = "update" /\ pc = at
  /\ \E ok \in BOOLEAN, partial \in BOOLEAN :
       IF ok
       THEN /\ fsWrites' = Append(fsWrites, what)
            /\ pc' = next
            /\ UNCHANGED thrown
       ELSE /\ fsWrites' = IF partial THEN Append(fsWrites, what) ELSE fsWrites
            /\ UpdateAbort(<<"cannot write", what>>)
  /\ UNCHANGED <<handlerVars, returned, details, engineVars, config, validateResult, mode, navigationOrder, navigationData,
                 errorCount, attempt, context>>

\* await this.fsUtils.createBackup(bookPath)
UpdateBackup == UpdateWrite("backup", "backup", "updateStructure")

\* await this.updateBookStructure(config, bookPath)
UpdateStructure == UpdateWrite("updateStructure", "chapter files", "updateConfigFiles")

\* updateFiles: generateConfigFiles
UpdateConfigFiles ==
  UpdateWrite("updateConfigFiles", "book-config.json, _config.yml", "updateIndex")

\* updateFiles: generateIndexFile
UpdateIndexFile == UpdateWrite("updateIndex", "index.md", "updateTemplates")

\* updateFiles: copyTemplateFiles; then updateBook returns true
UpdateTemplateFiles ==
  UpdateWrite("updateTemplates", "layouts, includes, assets", "done")

Next ==
  \/ CreateBegin
  \/ CreateLoadConfig
  \/ CreateValidate
  \/ CreateOutputDir
  \/ CreateStructure
  \/ CreateIndexFile
  \/ CreateConfigFiles
  \/ CreateChapterFiles
  \/ CreateNavigationData
  \/ CreateNavigationFailed
  \/ CreatePackageFile
  \/ CreateGitHubPages
  \/ CreateMobile
  \/ CreateSafeJavaScript
  \/ CreateTemplateFiles
  \/ UpdateLoadConfig
  \/ UpdateValidate
  \/ UpdateCheckExists
  \/ UpdateBackup
  \/ UpdateStructure
  \/ UpdateConfigFiles
  \/ UpdateIndexFile
  \/ UpdateTemplateFiles

Spec == Init /\ [][Next]_vars

(***************************************************************************)
(* The calls made directly on a template engine                            *)
(***************************************************************************)
InitRender ==
  /\ config = BaseConfig
  /\ mode = "render"
  /\ pc = "engine"
  /\ InitCommon
  /\ EngineIdle
  /\ data \in DataObjects

\* engine.addTemplate(name, template)
AddTemplate ==
  /\ mode = "render"
  /\ \E name \in CustomNames, template \in TemplateTexts :
       templates' = [templates EXCEPT ![name] = Template(template)]
  /\ UNCHANGED <<handlerVars, returned, data, rendered, details, config, pc, mode, validateResult,
                 navigationOrder, navigationData, thrown, fsWrites, errorCount,
                 attempt, context>>

\* engine.render(name, data)
Render ==
  /\ mode = "render"
  /\ \E name \in TemplateNames, date \in Dates :
       /\ rendered' = render(templates, name, data, date)
       /\ data' = DataAfterRender(templates, name, data)
  /\ UNCHANGED <<handlerVars, returned, templates, details, config, pc, mode, validateResult,
                 navigationOrder, navigationData, thrown, fsWrites, errorCount,
                 attempt, context>>

NextRender ==
  \/ AddTemplate
  \/ Render

SpecRender == InitRender /\ [][NextRender]_vars

(***************************************************************************)
(* The calls of getPageTitle and isValidVersion                            *)
(***************************************************************************)
\* items with and without a title, two of them under one path
TitledItems ==
  {Item(Undef, Lit("A"), Lit("/a.html")), Item(Undef, Undef, Lit("/b.html")),
   Item(Undef, Str(<<>>), Lit("/c-d.html"))}

TitledChapters ==
  {Item(Lit("a"), Lit("T"), Lit("/a.html")), Item(Lit("b"), Lit("D"), Lit("b")),
   Item(Lit("a"), Lit("T"), Undef)}

\* the configurations getPageTitle is called on
TitleConfigs ==
  {[BaseConfig EXCEPT !.structure = Structure(i, c, AbsentSection, a)] :
     i \in {AbsentSection} \cup {Section(<<x>>) : x \in TitledItems},
     c \in {AbsentSection} \cup {Section(x) : x \in SeqsUpTo(TitledChapters, MaxItems)},
     a \in {AbsentSection, Section(<<Item(Lit("b"), Lit("D"), Lit("/b.html"))>>)}}
  \cup {BaseConfig}

\* the page keys getPageTitle is asked for
PageKeys == {Chars("a"), Chars("b"), Chars("c-d"), Chars("x/y_z"), <<"z","z","/","9","k">>}

\* the numbers of a version, as written
NumberTexts == {<<"0">>, <<"1">>, <<"1","0">>, <<"0","1">>}

\* what follows the three numbers: prerelease and build parts, well formed or not
VersionSuffixes ==
  {<<>>, <<"-","a">>, <<"-","a",".","1">>, <<"-","0">>, <<"-","a","-","b">>,
   <<"-","0","1","a">>, <<"+","b">>, <<"+","b",".","1">>, <<"+","0","1">>,
   <<"-","a","+","b">>,
   <<"-">>, <<"-","0","1">>, <<"-","a",".">>, <<"-","a",".",".","b">>, <<"+">>,
   <<"+","b","+","c">>, <<"+","b",".">>, <<"-","a","+">>, <<"-","a","_","b">>,
   <<".","0">>, <<" ">>}

\* the strings isValidVersion is called with
VersionInputs ==
  {Version(<<>>, <<a, b, c>>, <<>>) :
     a \in NumberTexts, b \in NumberTexts, c \in NumberTexts}
  \cup {Version(<<>>, p, x) :
          p \in {<<<<"1">>, <<"0">>, <<"0">>>>, <<<<"0">>, <<"1">>, <<"1","0">>>>,
                 <<<<"1">>, <<"0","1">>, <<"0">>>>},
          x \in VersionSuffixes}
  \cup {Version(<<"v">>, <<<<"1">>, <<"0">>, <<"0">>>>, <<>>),
        Version(<<>>, <<<<"1">>, <<"0">>>>, <<>>),
        Version(<<>>, <<<<"1">>, <<>>, <<"0">>>>, <<>>),
        Version(<<>>, <<<<"l","a","t","e","s","t">>>>, <<>>),
        Version(<<>>, <<>>, <<>>)}

InitPure ==
  /\ config \in TitleConfigs
  /\ mode = "pure"
  /\ pc = "call"
  /\ InitCommon
  /\ EngineIdle /\ data = JObj(<<>>)

\* generator.getPageTitle(config, key)
CallGetPageTitle ==
  /\ mode = "pure" /\ pc = "call"
  /\ pc' = "returned"
  /\ \E key \in PageKeys :
       returned' =
         IF HasNonArraySection(config) \/ NullBeforeMatch(config, key)
         THEN [NoReturn EXCEPT !.fn = "getPageTitle", !.key = key, !.threw = TRUE]
         ELSE [NoReturn EXCEPT !.fn = "getPageTitle", !.key = key,
                               !.val = getPageTitle(config, key)]
  /\ UNCHANGED <<handlerVars, details, engineVars, config, mode, validateResult,
                 navigationOrder, navigationData, thrown, fsWrites, errorCount,
                 attempt, context>>

\* validator.isValidVersion(version)
CallIsValidVersion ==
  /\ mode = "pure" /\ pc = "call"
  /\ pc' = "returned"
  /\ \E v \in VersionInputs :
       returned' = [NoReturn EXCEPT !.fn = "isValidVersion", !.version = v,
                                    !.val = Bool(isValidVersion(VersionText(v)))]
  /\ UNCHANGED <<handlerVars, details, engineVars, config, mode, validateResult,
                 navigationOrder, navigationData, thrown, fsWrites, errorCount,
                 attempt, context>>

\* the values getValueByPath is called on
LookupObjects ==
  {Props(<<Prop("a", Props(<<Prop("b", Props(<<Prop("c", JNum(1))>>))>>))>>),
   Props(<<Prop("a", Props(<<Prop("b", JNull)>>))>>),
   Props(<<Prop("a", JStr(<<"x", "y">>))>>),
   Props(<<Prop("a", JNum(5))>>),
   Props(<<Prop("a", JNull)>>),
   Props(<<Prop("a", JArr(<<JNum(7)>>))>>),
   Props(<<>>),
   JNull, JUndef, JStr(<<"x", "y">>), JNum(5)}

\* the paths it is called with, split at the dots
LookupPaths ==
  {<<"a">>, <<"a", "b">>, <<"a", "b", "c">>, <<"a", "length">>, <<"a", "0">>,
   <<"length">>, <<"x", "y">>}

\* engine.getValueByPath(obj, path)
CallGetValueByPath ==
  /\ mode = "pure" /\ pc = "call"
  /\ \E obj \in LookupObjects, path \in LookupPaths :
       returned' = [NoReturn EXCEPT !.fn = "getValueByPath", !.obj = obj, !.path = path,
                                    !.found = getValueByPath(obj, path)]
  /\ pc' = "returned"
  /\ UNCHANGED <<handlerVars, details, engineVars, config, mode, validateResult,
                 navigationOrder, navigationData, thrown, fsWrites, errorCount,
                 attempt, context>>

NextPure ==
  \/ CallGetPageTitle
  \/ CallIsValidVersion
  \/ CallGetValueByPath

SpecPure == InitPure /\ [][NextPure]_vars

(***************************************************************************)
(* The calls made directly on an error handler                             *)
(***************************************************************************)
OperationName == "op"

\* the options safeExecute is called with
OptionValues ==
  {Options(r, f, s) : r \in 0..MaxRetries,
                      f \in {"absent", "returns", "throws", "rejects"},
                      s \in BOOLEAN}

\* what the operation throws or rejects with
ThrownValues == {ErrorOf(<<"e">>), NoReason}

InitHandler ==
  /\ config = BaseConfig
  /\ mode = "handler"
  /\ pc = "handler"
  /\ InitCommon
  /\ EngineIdle /\ data = JObj(<<>>)

\* the last invocation ends as `seen`; the operation goes on or not
EndInvocation(seen, running) ==
  invocations' = [invocations EXCEPT ![Len(invocations)] = Invocation(seen, running)]

\* faulty variant of Catch: only the failure of the last attempt is counted
CatchCountingLast(error) ==
  /\ errorCount' = IF call.attempt = call.options.retries THEN errorCount + 1
                   ELSE errorCount
  /\ failedAttempts' = failedAttempts + 1
  /\ call' = IF call.attempt = call.options.retries
             THEN [call EXCEPT !.pc = "done", !.lastError = error,
                               !.result = LastAttemptFailed(error, OperationName,
                                                            call.options, context)]
             ELSE [call EXCEPT !.pc = "delay", !.lastError = error]

\* faulty variant of Catch: the loop runs while attempt <= retries + 1
CatchOneMore(error) ==
  /\ errorCount' = errorCount + 1
  /\ failedAttempts' = failedAttempts + 1
  /\ call' = IF call.attempt = call.options.retries + 1
             THEN [call EXCEPT !.pc = "done", !.lastError = error,
                               !.result = LastAttemptFailed(error, OperationName,
                                                            call.options, context)]
             ELSE [call EXCEPT !.pc = "delay", !.lastError = error]

\* catch (error) of safeExecute: the attempt is counted; after the last
\* attempt the call ends, otherwise it waits for its backoff delay
Catch(error) ==
  /\ errorCount' = errorCount + 1
  /\ failedAttempts' = failedAttempts + 1
  /\ call' = IF call.attempt = call.options.retries
             THEN [call EXCEPT !.pc = "done", !.lastError = error,
                               !.result = LastAttemptFailed(error, OperationName,
                                                            call.options, context)]
             ELSE [call EXCEPT !.pc = "delay", !.lastError = error]

\* safeExecute(operation, 'op', options): the first attempt invokes the
\* operation under a timer
SafeExecute ==
  /\ mode = "handler"
  /\ call.pc \in {"idle", "done"}
  /\ call.n < MaxCalls
  /\ \E options \in OptionValues :
       call' = [NoCall EXCEPT !.pc = "awaiting", !.options = options, !.n = call.n + 1]
  /\ invocations' = <<Invocation("pending", TRUE)>>
  /\ UNCHANGED <<warningCount, failedAttempts, loggedWarnings, returned, details,
                 engineVars, config, pc, mode, validateResult, navigationOrder,
                 navigationData, thrown, fsWrites, errorCount, attempt, context>>

\* the operation returns before the timer fires: safeExecute returns its result
OperationReturns ==
  /\ mode = "handler" /\ call.pc = "awaiting"
  /\ EndInvocation("resolved", FALSE)
  /\ call' = [call EXCEPT !.pc = "done", !.result = ResultOf(Len(invocations))]
  /\ UNCHANGED <<warningCount, failedAttempts, loggedWarnings, returned, details,
                 engineVars, config, pc, mode, validateResult, navigationOrder,
                 navigationData, thrown, fsWrites, errorCount, attempt, context>>

\* the operation throws or rejects before the timer fires
OperationThrows ==
  /\ mode = "handler" /\ call.pc = "awaiting"
  /\ EndInvocation("rejected", FALSE)
  /\ \E error \in ThrownValues : Catch(error)
  /\ UNCHANGED <<warningCount, loggedWarnings, returned, details, engineVars, config,
                 pc, mode, validateResult, navigationOrder, navigationData, thrown,
                 fsWrites, attempt, context>>

\* the timer of executeWithTimeout fires first: the promise is rejected and
\* nothing stops the operation
TimeoutFires ==
  /\ mode = "handler" /\ call.pc = "awaiting"
  /\ EndInvocation("timedOut", TRUE)
  /\ Catch(TimeoutError(OperationName))
  /\ UNCHANGED <<warningCount, loggedWarnings, returned, details, engineVars, config,
                 pc, mode, validateResult, navigationOrder, navigationData, thrown,
                 fsWrites, attempt, context>>

\* the backoff delay is over: the next attempt invokes the operation
Retry ==
  /\ mode = "handler" /\ call.pc = "delay"
  /\ call' = [call EXCEPT !.pc = "awaiting", !.attempt = call.attempt + 1]
  /\ invocations' = Append(invocations, Invocation("pending", TRUE))
  /\ UNCHANGED <<warningCount, failedAttempts, loggedWarnings, returned, details,
                 engineVars, config, pc, mode, validateResult, navigationOrder,
                 navigationData, thrown, fsWrites, errorCount, attempt, context>>

\* an operation whose timer has fired returns or throws: clearTimeout, and a
\* resolve or reject of a promise that is settled already
OperationEndsLate ==
  /\ mode = "handler"
  /\ \E i \in 1..Len(invocations) :
       /\ invocations[i] = Invocation("timedOut", TRUE)
       /\ invocations' = [invocations EXCEPT ![i] = Invocation("timedOut", FALSE)]
  /\ UNCHANGED <<warningCount, call, failedAttempts, loggedWarnings, returned, details,
                 engineVars, config, pc, mode, validateResult, navigationOrder,
                 navigationData, thrown, fsWrites, errorCount, attempt, context>>

\* errorHandler.logWarning(message)
LogWarning ==
  /\ mode = "handler"
  /\ loggedWarnings < MaxWarnings
  /\ warningCount' = warningCount + 1
  /\ loggedWarnings' = loggedWarnings + 1
  /\ UNCHANGED <<call, invocations, failedAttempts, returned, details, engineVars,
                 config, pc, mode, validateResult, navigationOrder, navigationData,
                 thrown, fsWrites, errorCount, attempt, context>>

\* errorHandler.reset()
Reset ==
  /\ mode = "handler"
  /\ errorCount' = 0
  /\ warningCount' = 0
  /\ context' = ""
  /\ failedAttempts' = 0
  /\ loggedWarnings' = 0
  /\ UNCHANGED <<call, invocations, returned, details, engineVars, config, pc, mode,
                 validateResult, navigationOrder, navigationData, thrown, fsWrites,
                 attempt>>

\* errorHandler.setContext('createBook')
SetContext ==
  /\ mode = "handler"
  /\ context' = "createBook"
  /\ UNCHANGED <<handlerVars, returned, details, engineVars, config, pc, mode,
                 validateResult, navigationOrder, navigationData, thrown, fsWrites,
                 errorCount, attempt>>

NextHandler ==
  \/ SafeExecute
  \/ OperationReturns
  \/ OperationThrows
  \/ TimeoutFires
  \/ Retry
  \/ OperationEndsLate
  \/ LogWarning
  \/ Reset
  \/ SetContext

SpecHandler == InitHandler /\ [][NextHandler]_vars

(***************************************************************************)
(* Properties                                                              *)
(***************************************************************************)
\* C1: in createBook and in updateBook nothing is written to the file system
\* unless validate has returned normally on the loaded configuration; when
\* validate throws, the run fails with an error whose message contains the
\* validator's message, and nothing has been written.
C1_NoWriteBeforeValidation ==
  /\ fsWrites # <<>> => validateResult = <<>> /\ validate(config) = <<>>
  /\ validateResult \notin {<<>>, NotCalled} =>
       /\ pc = "failed"
       /\ fsWrites = <<>>
       /\ Contains(thrown, validateResult)

C1_Witness ==
  /\ mode = "create"
  /\ pc = "failed"
  /\ validateResult = <<"required fields missing:", "title", "author">>
  /\ Len(thrown) > Len(validateResult)

\* C3: for an object configuration in which at least one of title,
\* description, author is absent or falsy, validate throws the one error of
\* the required-field step, and its message names exactly the fields that
\* are absent or falsy.
C3_AllMissingFieldsNamed ==
  LET missing == {f \in {"title", "description", "author"} :
                    ~Truthy(Field(config, f))}
  IN (pc # "call" /\ config.self = Obj /\ missing # {}) =>
       /\ Len(validateResult) > 1
       /\ Head(validateResult) = "required fields missing:"
       /\ Range(Tail(validateResult)) = missing
       /\ Len(validateResult) = 1 + Cardinality(missing)

C3_Witness ==
  /\ pc = "validated"
  /\ config.self = Obj
  /\ ~Truthy(config.title) /\ Truthy(config.description) /\ ~Truthy(config.author)
  /\ validateResult = <<"required fields missing:", "title", "author">>

\* the page key a link's path points at: the path without '/' and '.html'
KeyOfLink(link) == SubSeq(link.path, 2, Len(link.path) - Len(HtmlSuffix))

RECURSIVE Walk(_, _, _)
\* the keys visited by following next from key, for at most fuel steps
Walk(map, key, fuel) ==
  IF fuel = 0 \/ key \notin DOMAIN map THEN <<>>
  ELSE IF map[key].next.null THEN <<key>>
  ELSE <<key>> \o Walk(map, KeyOfLink(map[key].next), fuel - 1)

\* the map is one chain over n pages: n entries, one head, one tail, and the
\* walk from the head visits every entry once and ends at null
IsChain(map, n) ==
  LET heads == {k \in DOMAIN map : map[k].previous.null}
      tails == {k \in DOMAIN map : map[k].next.null}
  IN /\ Cardinality(DOMAIN map) = n
     /\ Cardinality(heads) = 1
     /\ Cardinality(tails) = 1
     /\ \A h \in heads :
          LET visited == Walk(map, h, n + 1)
          IN /\ Len(visited) = n
             /\ Range(visited) = DOMAIN map
             /\ map[visited[Len(visited)]].next.null

\* C2: for every configuration validate accepts, with N > 1 flattened section
\* paths and no navigation.order, the navigation map has exactly N entries,
\* exactly one with previous = null, exactly one with next = null, and the
\* walk along next from the head visits all N entries once.
C2_DefaultNavigationIsChain ==
  (/\ mode = "call" /\ pc = "done"
   /\ validateResult = <<>>
   /\ ~HasCustomOrder(config)
   /\ Len(navigationOrder) > 1)
    => IsChain(navigationData, Len(navigationOrder))

\* the statement of C2 on the configurations whose section paths give
\* pairwise distinct, non-empty page keys
C2_DistinctPathsGiveChain ==
  (/\ mode = "call" /\ pc = "done"
   /\ validateResult = <<>>
   /\ ~HasCustomOrder(config)
   /\ Len(navigationOrder) > 1
   /\ Cardinality(Range(navigationOrder)) = Len(navigationOrder)
   /\ Str(<<>>) \notin Range(navigationOrder))
    => IsChain(navigationData, Len(navigationOrder))

\* the entry stored under order[i] is the one built for position i
EntryMatchesPosition(map, order, i) ==
  LET key == ToStr(order[i])
      n   == Len(order)
  IN /\ key \in DOMAIN map
     /\ (map[key].previous.null <=> i = 1)
     /\ (i > 1 => map[key].previous.path = <<"/">> \o ToStr(order[i-1]) \o HtmlSuffix)
     /\ (map[key].next.null <=> i = n)
     /\ (i < n => map[key].next.path = <<"/">> \o ToStr(order[i+1]) \o HtmlSuffix)
     /\ map[key].index = i - 1
     /\ map[key].total = n

\* C4: for each position i of the navigation order of length N, the entry
\* stored under order[i] has previous = null exactly when i = 0 and otherwise
\* previous.path = '/' + order[i-1] + '.html', next likewise for i = N-1,
\* index = i and total = N.
C4_EntryPerPosition ==
  (mode = "call" /\ pc = "done" /\ validateResult = <<>>) =>
    \A i \in 1..Len(navigationOrder) :
      EntryMatchesPosition(navigationData, navigationOrder, i)

\* C5: when navigation.order is set (and validate accepted it),
\* generateNavigationData uses exactly that list, in that order: the keys of
\* the map are its entries, the first one has previous = null, and the
\* previous and next of each are its neighbours in the list, whatever the
\* order of the items of structure.
C5_CustomOrderUsedVerbatim ==
  (/\ mode = "call" /\ pc = "done"
   /\ validateResult = <<>>
   /\ HasCustomOrder(config))
    => LET order == config.navigation.order.items
       IN /\ navigationOrder = order
          /\ DOMAIN navigationData = {order[i].s : i \in 1..Len(order)}
          /\ \A i \in 1..Len(order) :
               EntryMatchesPosition(navigationData, order, i)

C5_Witness ==
  /\ mode = "call" /\ pc = "done"
  /\ validateResult = <<>>
  /\ config.structure = PagedStructure
  /\ generateDefaultNavigationOrder(config) = <<Chars("b"), Chars("a")>>
  /\ config.navigation.order.items = <<Lit("a"), Lit("b")>>
  /\ navigationData[Chars("a")].previous.null
  /\ navigationData[Chars("b")].next.null

\* key is path without one leading '/' and, after that, without a trailing
\* '.html'
IsNormalizedPath(path, key) ==
  \E pre \in {<<>>, <<"/">>}, suf \in {<<>>, HtmlSuffix} :
    /\ path = pre \o key \o suf
    /\ (pre = <<>> => (path = <<>> \/ path[1] # "/"))
    /\ (suf = <<>> =>
          ~(Len(key) >= 5 /\ SubSeq(key, Len(key) - 4, Len(key)) = HtmlSuffix))

\* the items of a section that carry a path, in their order
PathedItems(section) == SelectSeq(section.items, LAMBDA item : Truthy(item.path))

\* C6: without an override, generateDefaultNavigationOrder returns the
\* normalized paths of the section items, introduction first, then chapters,
\* conclusion and appendices, each list in its own order; an absent section
\* contributes nothing and causes no error.
C6_DefaultOrderIsConcatenation ==
  LET st    == config.structure
      items == IF st.k = "absent" THEN <<>>
               ELSE PathedItems(st.introduction) \o PathedItems(st.chapters)
                      \o PathedItems(st.conclusion) \o PathedItems(st.appendices)
  IN /\ (mode = "call" /\ pc = "ordered") =>
          /\ Len(navigationOrder) = Len(items)
          /\ \A i \in 1..Len(items) :
               /\ navigationOrder[i].t = "string"
               /\ IsNormalizedPath(items[i].path.s, navigationOrder[i].s)
     /\ (mode = "call" /\ pc = "orderFailed") =>
          \/ IsNullish(config)
          \/ /\ st.k # "absent"
             /\ \/ "other" \in {st.introduction.k, st.chapters.k,
                                st.conclusion.k, st.appendices.k}
                \/ HasNullItem(config)

C6_Witness ==
  /\ mode = "call" /\ pc = "ordered"
  /\ config.structure.k = "object"
  /\ config.structure.introduction.k = "array"
  /\ Len(config.structure.chapters.items) = 2
  /\ config.structure.conclusion.k = "absent"
  /\ config.structure.appendices.k = "array"
  /\ navigationOrder = <<Lit("b"), Lit("c-d"), Lit("a"), Lit("b")>>

\* navigation.order is an array of pairwise distinct, non-empty strings
\* over [A-Za-z0-9-_/]
IsWellFormedOrder(order) ==
  /\ order.k = "array"
  /\ \A i, j \in 1..Len(order.items) : i # j => order.items[i] # order.items[j]
  /\ \A i \in 1..Len(order.items) :
       /\ order.items[i].t = "string"
       /\ order.items[i].s # <<>>
       /\ \A c \in Range(order.items[i].s) :
            c \in Lower \cup Upper \cup Digit \cup {"-", "_", "/"}

\* the steps before the navigation step let the configuration through
PassesBeforeNavigation(cfg) ==
  /\ cfg.self = Obj
  /\ validateRequiredFields(cfg) = <<>>
  /\ validateDataTypes(cfg) = <<>>
  /\ validateStructure(cfg) = <<>>

\* C7 as stated: whenever validate returns normally on a configuration whose
\* navigation.order is present, navigation.order is an array of pairwise
\* distinct, non-empty strings over [A-Za-z0-9-_/].
C7_PresentOrderIsWellFormed ==
  (/\ pc # "call" /\ validateResult = <<>>
   /\ config.navigation.k # "absent"
   /\ config.navigation.order.k # "absent")
    => IsWellFormedOrder(config.navigation.order)

\* C7, amended: whenever validate returns normally on a configuration whose
\* navigation.order is present and truthy, navigation.order is an array of
\* pairwise distinct, non-empty strings over [A-Za-z0-9-_/]; an order list
\* with the same path twice makes validate throw the duplication error.
C7_TruthyOrderIsWellFormed ==
  /\ (/\ pc # "call" /\ validateResult = <<>>
      /\ config.navigation.k # "absent"
      /\ config.navigation.order.k \notin {"absent", "falsy"})
       => IsWellFormedOrder(config.navigation.order)
  /\ (/\ pc # "call"
      /\ PassesBeforeNavigation(config)
      /\ config.navigation.k # "absent"
      /\ config.navigation.order.k = "array"
      /\ \E i, j \in 1..Len(config.navigation.order.items) :
           i # j /\ config.navigation.order.items[i] = config.navigation.order.items[j])
       => validateResult = <<"navigation.order", "contains duplicate paths">>

C7_Witness ==
  /\ pc = "validated"
  /\ config.navigation.order.k = "array"
  /\ config.navigation.order.items = <<Lit("a"), Lit("x/y_z")>>
  /\ validateResult = <<>>

\* an item carries a string id matching ^[a-z0-9-]+$
HasValidId(item) ==
  /\ ~IsNullItem(item)
  /\ item.id.t = "string"
  /\ item.id.s # <<>>
  /\ \A c \in Range(item.id.s) : c \in Lower \cup Digit \cup {"-"}

\* an item carries a string title
HasStringTitle(item) == ~IsNullItem(item) /\ item.title.t = "string"

Offending(item) == ~HasValidId(item) \/ ~HasStringTitle(item)

\* the error names item `index` of the list called `label` and a field of
\* that item that is missing or invalid, and nothing else
NamesItem(msg, label, items, index) ==
  /\ Len(msg) = 4
  /\ msg[1] = label
  /\ msg[2] = ToString(index)
  /\ \/ msg[3] = "id" /\ ~HasValidId(items[index])
     \/ msg[3] = "title" /\ ~HasStringTitle(items[index])

FirstOffending(items) ==
  CHOOSE i \in 1..Len(items) :
    Offending(items[i]) /\ \A j \in 1..(i-1) : ~Offending(items[j])

\* C8: for a configuration that passes the earlier steps, if an item of
\* structure.chapters or structure.appendices lacks a string id matching
\* ^[a-z0-9-]+$ or a string title, validate throws an error naming the
\* 1-based index of the first offending item (chapters before appendices)
\* and the offending field, and no later item.
C8_FirstOffendingItemReported ==
  LET st == config.structure
      ch == st.chapters.items
      ap == st.appendices.items
  IN (/\ pc # "call"
      /\ config.self = Obj
      /\ validateRequiredFields(config) = <<>>
      /\ validateDataTypes(config) = <<>>
      /\ st.k = "object"
      /\ \E i \in 1..Len(ch \o ap) : Offending((ch \o ap)[i]))
       => IF \E i \in 1..Len(ch) : Offending(ch[i])
          THEN NamesItem(validateResult, "chapter", ch, FirstOffending(ch))
          ELSE NamesItem(validateResult, "appendix", ap, FirstOffending(ap))

\* an item the validator throws on: besides the offending ones, an item
\* whose title is the empty string
Rejected(item) == Offending(item) \/ ~Truthy(item.title)

\* C8, on lists of objects: when chapters and appendices are lists (or absent)
\* of items none of which is null, validate throws on the first item that has
\* no valid id or no non-empty string title, and names its index and a field
\* of it that is missing or invalid.
C8_ObjectItemsReported ==
  LET st == config.structure
      ch == st.chapters.items
      ap == st.appendices.items
      firstOf(items) == CHOOSE i \in 1..Len(items) :
                          Rejected(items[i]) /\ \A j \in 1..(i-1) : ~Rejected(items[j])
      names(label, items, i) ==
        /\ Len(validateResult) = 4
        /\ validateResult[1] = label
        /\ validateResult[2] = ToString(i)
        /\ \/ validateResult[3] = "id" /\ ~HasValidId(items[i])
           \/ validateResult[3] = "title" /\ (~HasStringTitle(items[i])
                                               \/ ~Truthy(items[i].title))
  IN (/\ pc # "call"
      /\ config.self = Obj
      /\ validateRequiredFields(config) = <<>>
      /\ validateDataTypes(config) = <<>>
      /\ st.k = "object"
      /\ st.chapters.k \in {"absent", "array"}
      /\ st.appendices.k \in {"absent", "array"}
      /\ ~HasNullItem(config)
      /\ \E i \in 1..Len(ch \o ap) : Rejected((ch \o ap)[i]))
       => IF \E i \in 1..Len(ch) : Rejected(ch[i])
          THEN names("chapter", ch, firstOf(ch))
          ELSE names("appendix", ap, firstOf(ap))

\* a null item is met by the validator
C8_NullItemMet ==
  /\ pc = "validated"
  /\ config.structure.chapters.k = "array"
  /\ Len(config.structure.chapters.items) = 1
  /\ IsNullItem(config.structure.chapters.items[1])
  /\ validateResult = <<"TypeError">>

\* the messages of the type and length checks of the scalar step
ScalarTypeMessages ==
  {<<f, "must be a string">> :
     f \in {"title", "description", "author", "version", "language"}}
    \cup {<<"title must be at most 100 characters">>,
          <<"description must be at most 500 characters">>}

HasRequiredFields(cfg) ==
  cfg.self = Obj /\ Truthy(cfg.title) /\ Truthy(cfg.description) /\ Truthy(cfg.author)

ScalarFields(cfg) ==
  {cfg.title, cfg.description, cfg.author, cfg.version, cfg.language}

TooLong(cfg) ==
  \/ cfg.title.t = "string" /\ Len(cfg.title.s) > 100
  \/ cfg.description.t = "string" /\ Len(cfg.description.s) > 500

\* C9 as stated: with the three required fields, validate throws whenever
\* one of title, description, author, version, language is present with a
\* non-string value, whenever title has more than 100 characters and
\* whenever description has more than 500; otherwise this step does not
\* throw (the version format aside).
C9_PresentNonStringRejected ==
  (pc # "call" /\ HasRequiredFields(config)) =>
    LET bad == \/ \E v \in ScalarFields(config) : v.t \notin {"undefined", "string"}
               \/ TooLong(config)
    IN (validateResult \in ScalarTypeMessages) <=> bad

\* C9, amended: with the three required fields, validate throws whenever one
\* of title, description, author, version, language has a truthy value that
\* is no string (a falsy version or language - 0, false, null, '' - counts
\* as not set), whenever title has more than 100 characters and whenever
\* description has more than 500; otherwise this step does not throw (the
\* version format aside).
C9_TruthyNonStringRejected ==
  (pc # "call" /\ HasRequiredFields(config)) =>
    LET bad == \/ \E v \in ScalarFields(config) : Truthy(v) /\ v.t # "string"
               \/ TooLong(config)
    IN (validateResult \in ScalarTypeMessages) <=> bad

C9_Witness ==
  /\ pc = "validated"
  /\ HasRequiredFields(config)
  /\ config.title.t = "string" /\ Len(config.title.s) = TitleMaxLength
  /\ config.description.t = "string" /\ Len(config.description.s) = DescriptionMaxLength
  /\ config.version = Undef
  /\ config.language = Num(5)
  /\ validateResult = <<"language", "must be a string">>

\* C10 as stated: the checks run in the order shape, required fields, scalar
\* type/format, structure, repository, navigation order; a configuration that
\* violates a repository rule and a navigation.order rule, and nothing
\* before them, raises the repository error.
C10_RepositoryBeforeNavigation ==
  (/\ pc # "call"
   /\ PassesBeforeNavigation(config)
   /\ validateRepository(config) # <<>>
   /\ validateNavigation(config) # <<>>)
    => validateResult = validateRepository(config)

\* the error of the i-th check is thrown when the checks before it pass
ThrowsFirstOf(result, checks) ==
  /\ \A i \in 1..Len(checks) :
       (checks[i] # <<>> /\ \A j \in 1..(i-1) : checks[j] = <<>>)
         => result = checks[i]
  /\ (\A i \in 1..Len(checks) : checks[i] = <<>>) => result = <<>>

\* C10, amended: the checks run in the order shape, required fields, scalar
\* type/format, structure, navigation order, repository, and validate throws
\* the error of the first one violated; a configuration that violates a
\* repository rule and a navigation.order rule raises the navigation.order
\* error.
C10_NavigationBeforeRepository ==
  pc # "call" =>
    ThrowsFirstOf(validateResult,
      <<IF config.self = Obj THEN <<>> ELSE <<"configuration is not an object">>,
        validateRequiredFields(config),
        validateDataTypes(config),
        validateStructure(config),
        validateNavigation(config),
        validateRepository(config)>>)

C10_Witness ==
  /\ pc = "validated"
  /\ config.repository.url = Lit("no-url")
  /\ config.navigation.order.items = <<Lit("a"), Lit("a")>>
  /\ validateResult = <<"navigation.order", "contains duplicate paths">>

\* C11: for every input, null and values that are no object included,
\* getValidationDetails returns a result without throwing; isValid is true
\* exactly when validate returns normally on the input, and otherwise errors
\* holds the message validate throws.
C11_DetailsNeverThrows ==
  (mode = "call" /\ pc \in {"details", "detailsFailed"}) =>
     /\ pc = "details"
     /\ details.isValid <=> validate(config) = <<>>
     /\ ~details.isValid => details.errors = <<validate(config)>>

\* getValidationDetails(null) has thrown
C11_NullInput ==
  /\ mode = "call" /\ pc = "detailsFailed"
  /\ config.self = Null
  /\ validateResult # <<>>
  /\ thrown = <<"TypeError">>

\* a configuration defines no chapters
DefinesNoChapters(cfg) ==
  cfg.structure.k = "absent" \/ cfg.structure.chapters.k = "absent"

\* C12: the warnings of getValidationDetails hold the no-chapters warning
\* exactly when the configuration defines no chapters, the no-version warning
\* exactly when version is not set and the no-repository warning exactly when
\* repository is not set; with all three set the list is empty.
C12_WarningsMatchOmissions ==
  (mode = "call" /\ pc = "details") =>
     LET has(w) == \E i \in 1..Len(details.warnings) : details.warnings[i] = w
     IN /\ has("no chapters") <=> DefinesNoChapters(config)
        /\ has("no version") <=> ~Truthy(config.version)
        /\ has("no repository") <=> config.repository.k = "absent"

\* getValidationDetails returned for a configuration without structure
C12_NoStructure ==
  /\ mode = "call" /\ pc = "details"
  /\ config.self = Obj
  /\ config.structure.k = "absent"
  /\ details.isValid
  /\ details.warnings = <<"no version", "no repository">>

\* C13: render does not modify its inputs: after it returns, the data
\* object, nested objects such as data.repository included, equals what it
\* was before the call.
C13_RenderLeavesDataUnchanged ==
  rendered.k # "none" => data = rendered.given

\* render has written owner and name into the caller's data.repository
C13_RepositoryWritten ==
  /\ rendered.k = "string"
  /\ GetProp(rendered.given, "repository") = Props(<<Prop("url", JStr(GitHubUrl))>>)
  /\ GetProp(GetProp(data, "repository"), "owner") = JStr(<<"o">>)
  /\ GetProp(GetProp(data, "repository"), "name") = JStr(<<"r">>)

\* C14: after any calls of addTemplate, render(name, data) throws the
\* template-not-found error if and only if name is no key of the registry,
\* whatever the text of a registered template is.
C14_NotFoundIffUnregistered ==
  rendered.k # "none" => (rendered.k = "notFound" <=> rendered.template.k = "absent")

\* render has thrown template-not-found for a name addTemplate registered
C14_EmptyTemplateNotFound ==
  /\ rendered.k = "notFound"
  /\ rendered.name = "custom.md"
  /\ rendered.template = Template(<<>>)

\* C15: for a registered template name render returns a string and never
\* throws, whatever the data object holds.
C15_RegisteredNeverThrows ==
  (rendered.k # "none" /\ rendered.template.k = "string") => rendered.k = "string"

\* render has thrown a TypeError on a title that is a number
C15_NumberTitleThrows ==
  /\ rendered.k = "TypeError"
  /\ rendered.template.k = "string"
  /\ GetProp(rendered.given, "title") = JNum(5)

\* C16: {{#if p}}A{{else}}B{{/if}} is replaced by A when the value of p is
\* truthy and by B when it is falsy; without {{else}} a falsy condition gives
\* the empty string; the text of the other branch never appears.
C16_ExactlyOneBranch ==
  LET chosen == JTruthy(getValueByPath(rendered.given, <<"p">>))
  IN /\ (rendered.k = "string" /\ rendered.template.toks = IfElseTemplate) =>
          rendered.out = IF chosen THEN <<Text("A")>> ELSE <<Text("B")>>
     /\ (rendered.k = "string" /\ rendered.template.toks = IfTemplate) =>
          rendered.out = IF chosen THEN <<Text("A")>> ELSE <<>>

\* both branches in the output of a truthy condition
C16_BothBranches ==
  /\ rendered.k = "string"
  /\ rendered.template.toks = IfElseTemplate
  /\ GetProp(rendered.given, "p") = JArr(<<>>)
  /\ rendered.out = <<Text("A"), Text("B")>>

\* no branch in the output of a falsy condition
C16_NoBranch ==
  /\ rendered.k = "string"
  /\ rendered.template.toks = IfElseTemplate
  /\ GetProp(rendered.given, "p") = JNum(0)
  /\ rendered.out = <<>>

\* C16, without {{else}}: the block is A for a truthy and empty for a falsy
\* condition, empty arrays and objects being truthy.
C16_IfWithoutElse ==
  (rendered.k = "string" /\ rendered.template.toks = IfTemplate) =>
     rendered.out = IF JTruthy(getValueByPath(rendered.given, <<"p">>))
                    THEN <<Text("A")>> ELSE <<>>

\* the characters of a string as text and nothing else
Plain(cs) == [i \in 1..Len(cs) |-> Text(cs[i])]

RECURSIVE IndexedLines(_, _)
\* '1:x\n2:y\n' for [x, y], from element `from` on
IndexedLines(array, from) ==
  IF from > Len(array) THEN <<>>
  ELSE Plain(<<DigitChars[from + 1], ":">> \o JString(array[from]) \o <<"\n">>)
       \o IndexedLines(array, from + 1)

\* C17: {{#each p}}body{{/each}} renders as one copy of body per element of
\* the array at p, in order, {{@index}} being the 1-based position and
\* {{this}} the element; when p is no array the block renders as the empty
\* string without error.
C17_EachConcatenatesElements ==
  LET array == getValueByPath(rendered.given, <<"items">>)
  IN (rendered.k # "none" /\ rendered.template.toks = EachTemplate) =>
        /\ rendered.k = "string"
        /\ rendered.out = IF array.t = "array" THEN IndexedLines(array.a, 1) ELSE <<>>

\* C17, for elements that hold no tag and data render does not throw on
C17_PlainElements ==
  LET array == getValueByPath(rendered.given, <<"items">>)
  IN (/\ rendered.k = "string"
      /\ rendered.template.toks = EachTemplate
      /\ \A i \in 1..Len(array.a) : TagInText \notin Range(array.a[i].s)) =>
        rendered.out = IF array.t = "array" THEN IndexedLines(array.a, 1) ELSE <<>>

\* the example of the specification: items = [x, y] gives '1:x\n2:y\n'
C17_Example ==
  /\ rendered.k = "string"
  /\ rendered.template.toks = EachTemplate
  /\ GetProp(rendered.given, "items") = JArr(<<JStr(<<"x">>), JStr(<<"y">>)>>)
  /\ rendered.out = Plain(<<"1", ":", "x", "\n", "2", ":", "y", "\n">>)

\* an element that holds a tag is rendered as the value of the tag
C17_ElementRendered ==
  /\ rendered.k = "string"
  /\ rendered.template.toks = EachTemplate
  /\ GetProp(rendered.given, "items") = JArr(<<JStr(<<"x">>), JStr(<<TagInText>>)>>)
  /\ rendered.out = Plain(<<"1", ":", "x", "\n", "2", ":", "T", "\n">>)

\* C18: a plain variable whose path is unresolved at some segment is
\* replaced by the empty string, and render does not throw.
C18_UnresolvedIsEmptyNoThrow ==
  /\ (rendered.k # "none" /\ rendered.template.toks = MissingTemplate) =>
        rendered.k = "string" /\ rendered.out = <<>>
  /\ (rendered.k # "none" /\ rendered.template.toks = DeadEndTemplate) =>
        rendered.k = "string" /\ rendered.out = <<Text("|")>>

\* C18, when render returns: the unresolved variable leaves nothing
C18_UnresolvedIsEmpty ==
  /\ (rendered.k = "string" /\ rendered.template.toks = MissingTemplate) =>
        rendered.out = <<>>
  /\ (rendered.k = "string" /\ rendered.template.toks = DeadEndTemplate) =>
        rendered.out = <<Text("|")>>

\* render has thrown on a template that holds one unresolved variable
C18_ThrowsOnTitle ==
  /\ rendered.k = "TypeError"
  /\ rendered.template.toks = MissingTemplate
  /\ GetProp(rendered.given, "title") = JNum(5)

\* the section items whose normalized path is key, in search order
Matching(cfg, key) ==
  SelectSeq(AllSections(cfg),
            LAMBDA item : item.path.t = "string" /\ item.path.s # <<>>
                          /\ IsNormalizedPath(item.path.s, key))

\* every '-', '_' and '/' of key is a space, the first letter of each word is
\* a capital and everything else is as in key
IsHumanized(text, key) ==
  /\ Len(text) = Len(key)
  /\ \A i \in 1..Len(key) :
       LET sep(c) == c \in {"-", "_", "/"}
       IN text[i] = IF sep(key[i]) THEN " "
                    ELSE IF i = 1 \/ sep(key[i-1]) THEN UpperOf(key[i])
                    ELSE key[i]

\* C19: getPageTitle(config, key) returns the title of the section item whose
\* normalized path is key, and the humanized key when no item matches.
C19_TitleOfMatchingItem ==
  (returned.fn = "getPageTitle" /\ ~returned.threw) =>
     LET found == Matching(config, returned.key)
     IN IF found # <<>>
        THEN \E i \in 1..Len(found) : returned.val = found[i].title
        ELSE returned.val.t = "string" /\ IsHumanized(returned.val.s, returned.key)

\* C19, with the item that has no title: getPageTitle returns the title of
\* the first section item (introduction, chapters, conclusion, appendices)
\* whose normalized path is key, or key itself when that item has no title
\* or an empty one; when no item matches it returns the humanized key.
C19_TitleOfFirstMatchOrKey ==
  (returned.fn = "getPageTitle" /\ ~returned.threw) =>
     LET found == Matching(config, returned.key)
     IN IF found # <<>>
        THEN returned.val = IF found[1].title.t = "string" /\ found[1].title.s # <<>>
                            THEN found[1].title
                            ELSE Str(returned.key)
        ELSE returned.val.t = "string" /\ IsHumanized(returned.val.s, returned.key)

\* two items under the key, the first one's title returned
C19_Witness ==
  /\ returned.fn = "getPageTitle" /\ returned.key = Chars("a")
  /\ Len(Matching(config, returned.key)) = 2
  /\ Matching(config, returned.key)[2].title = Lit("T")
  /\ returned.val = Lit("A")

\* a key no item has, humanized
C19_Humanized ==
  /\ returned.fn = "getPageTitle" /\ returned.key = Chars("x/y_z")
  /\ returned.val = Str(<<"X", " ", "Y", " ", "Z">>)

\* the item under the key has no title: the key is returned
C19_KeyForUntitled ==
  /\ returned.fn = "getPageTitle" /\ returned.key = Chars("b")
  /\ Matching(config, returned.key) # <<>>
  /\ Matching(config, returned.key)[1].title = Undef
  /\ returned.val = Lit("b")

\* the well-formed ones of VersionSuffixes
WellFormedSuffixes ==
  {<<>>, <<"-","a">>, <<"-","a",".","1">>, <<"-","0">>, <<"-","a","-","b">>,
   <<"-","0","1","a">>, <<"+","b">>, <<"+","b",".","1">>, <<"+","0","1">>,
   <<"-","a","+","b">>}

\* MAJOR.MINOR.PATCH of numbers without leading zero, and a well-formed rest
HasSemverForm(v) ==
  /\ v.prefix = <<>>
  /\ Len(v.parts) = 3
  /\ \A i \in 1..3 : v.parts[i] \in {<<"0">>, <<"1">>, <<"1","0">>}
  /\ v.suffix \in WellFormedSuffixes

\* C20: isValidVersion(v) is true exactly when v is MAJOR.MINOR.PATCH with
\* optional -prerelease and +build parts, each number being without leading
\* zero; '1.0', 'v1.0.0', '1.0.0.0', '', 'latest', '01.0.0' are rejected.
C20_ValidExactlySemver ==
  returned.fn = "isValidVersion" =>
     (returned.val = Bool(TRUE) <=> HasSemverForm(returned.version))

\* 01.0.0 is rejected
C20_Witness ==
  /\ returned.fn = "isValidVersion"
  /\ VersionText(returned.version) = <<"0","1",".","0",".","0">>
  /\ returned.val = Bool(FALSE)

\* 1.0.0+b.1 is accepted
C20_BuildAccepted ==
  /\ returned.fn = "isValidVersion"
  /\ VersionText(returned.version) = <<"1",".","0",".","0","+","b",".","1">>
  /\ returned.val = Bool(TRUE)

\* the attempts of the call that failed, as safeExecute saw them
FailedInvocations ==
  {i \in 1..Len(invocations) : invocations[i].seen \in {"rejected", "timedOut"}}

\* C21: safeExecute with retries = r invokes the operation at most r+1 times,
\* an attempt being made only after every earlier one has failed; it stops at
\* the first attempt that succeeds and returns that attempt's result, so an
\* operation that fails k <= r times and then succeeds is invoked k+1 times.
C21_RetriesUntilFirstSuccess ==
  /\ Len(invocations) <= call.options.retries + 1
  /\ \A i \in 1..(Len(invocations) - 1) : i \in FailedInvocations
  /\ \A i \in 1..Len(invocations) :
       invocations[i].seen = "resolved" =>
         /\ i = Len(invocations)
         /\ call.pc = "done"
         /\ call.result = ResultOf(i)
         /\ Len(invocations) = Cardinality(FailedInvocations) + 1
  /\ call.result.k = "value" => invocations[call.result.v].seen = "resolved"

\* two failures, one of them a timeout, then the third attempt succeeds
C21_Witness ==
  /\ call.pc = "done" /\ call.options.retries = 2
  /\ Len(invocations) = 3
  /\ invocations[1].seen = "rejected" /\ invocations[2].seen = "timedOut"
  /\ invocations[3].seen = "resolved"
  /\ call.result = ResultOf(3)

\* every attempt of the call has failed
EveryAttemptFailed ==
  /\ call.pc = "done"
  /\ FailedInvocations = 1..Len(invocations)

\* an error 'Failed during <operationName>...' that wraps the last error
IsEnhanced(result, error) ==
  /\ result.k = "raised"
  /\ Len(result.message) >= 2
  /\ SubSeq(result.message, 1, 2) = <<"Failed during", OperationName>>
  /\ result.originalError = error

\* C22: when every attempt fails, safeExecute returns the result of a
\* fallback that returns; with a fallback that raises or with none it returns
\* null when suppressError is set and otherwise raises 'Failed during
\* <operationName>...', which wraps the operation's last error.
C22_AfterLastFailure ==
  EveryAttemptFailed =>
    IF call.options.fallback = "returns" THEN call.result = FallbackResult
    ELSE IF call.options.suppressError THEN call.result = NullResult
    ELSE IsEnhanced(call.result, call.lastError)

\* C22 for an operation and a fallback that throw Error objects
C22_ErrorObjects ==
  (EveryAttemptFailed /\ call.lastError.k = "Error" /\ call.options.fallback # "rejects") =>
    IF call.options.fallback = "returns" THEN call.result = FallbackResult
    ELSE IF call.options.suppressError THEN call.result = NullResult
    ELSE IsEnhanced(call.result, call.lastError)

\* the operation rejects without a reason, a fallback is given and
\* suppressError is not set: a TypeError is raised
C22_RejectedWithoutReason ==
  /\ EveryAttemptFailed
  /\ call.lastError = NoReason
  /\ call.options = Options(0, "returns", FALSE)
  /\ call.result = TypeErrorRaised

\* the fallback throws an Error: the enhanced error wraps the timeout error
C22_FallbackThrows ==
  /\ EveryAttemptFailed
  /\ call.options = Options(1, "throws", FALSE)
  /\ call.lastError = TimeoutError(OperationName)
  /\ IsEnhanced(call.result, TimeoutError(OperationName))

\* C29: getStats().errors is the number of operation attempts that failed
\* since the last reset, retries included, getStats().warnings the number
\* of logWarning calls since the last reset, hasErrors and hasWarnings are
\* true exactly when the count is positive, and after reset both are 0.
C29_StatsCountSinceReset ==
  LET st == getStats(errorCount, warningCount)
  IN /\ st.errors = failedAttempts
     /\ st.warnings = loggedWarnings
     /\ st.hasErrors = (failedAttempts > 0)
     /\ st.hasWarnings = (loggedWarnings > 0)

\* three attempts failed, the handler was reset after the first of them, and
\* a warning was logged after the reset
C29_Witness ==
  /\ call.pc = "done" /\ FailedInvocations = 1..3
  /\ getStats(errorCount, warningCount) =
       [errors |-> 2, warnings |-> 1, hasErrors |-> TRUE, hasWarnings |-> TRUE]

\* the invocations of the operation that have not finished
InFlight == {i \in 1..Len(invocations) : invocations[i].running}

\* C30: within one safeExecute call at most one invocation of the operation
\* is in flight at any time, a retry starting only after the previous
\* attempt has finished, also when the timeout ended it.
C30_AtMostOneInFlight == Cardinality(InFlight) <= 1

\* the first attempt was ended by the timeout and is still running when the
\* retry invokes the operation again
C30_TwoInFlight ==
  /\ Len(invocations) = 2
  /\ invocations[1] = Invocation("timedOut", TRUE)
  /\ invocations[2] = Invocation("pending", TRUE)

\* C30, second part: an operation that completes after its timeout fired
\* changes nothing of the call, its result included
C30_LateResultIgnored == [][OperationEndsLate => call' = call]_vars

RECURSIVE IsClaimedLookup(_, _, _)
\* out is what the walk of keys from v gives: the value reached when every
\* step is an object holding the next key, undefined when a step other than
\* the last is null, undefined, a string, a number or a boolean, or an object
\* without the key; the keys of an array are left open
IsClaimedLookup(v, keys, out) ==
  IF keys = <<>> THEN out = v
  ELSE IF v.t \in {"null", "undefined", "string", "number", "boolean"} THEN out = JUndef
  ELSE IF v.t = "object"
       THEN IF \E i \in 1..Len(v.o) : v.o[i].key = Head(keys)
            THEN IsClaimedLookup(v.o[CHOOSE i \in 1..Len(v.o) : v.o[i].key = Head(keys)].val,
                                 Tail(keys), out)
            ELSE out = JUndef
  ELSE TRUE

\* C24: getValueByPath(obj, 'a.b.c') returns obj[a][b][c] when every step is
\* an object holding the next key, returns undefined when the value reached
\* at a step before the last is no object (null, undefined, a string, a
\* number) or a key is absent, and never raises.
C24_LookupWalksObjects ==
  returned.fn = "getValueByPath" =>
    /\ ~returned.threw
    /\ IsClaimedLookup(returned.obj, returned.path, returned.found)

\* C24 for paths that do not name the length or a character of a string
C24_LookupOfOtherKeys ==
  (returned.fn = "getValueByPath"
     /\ returned.path \notin {<<"a", "length">>, <<"a", "0">>}) =>
    /\ ~returned.threw
    /\ IsClaimedLookup(returned.obj, returned.path, returned.found)

\* { a: 'xy' } and 'a.length': the step before the last is a string, and 2
\* is returned
C24_LengthOfString ==
  /\ returned.fn = "getValueByPath"
  /\ returned.obj = Props(<<Prop("a", JStr(<<"x", "y">>))>>)
  /\ returned.path = <<"a", "length">>
  /\ returned.found = JNum(2)

\* { a: { b: { c: 1 } } } and 'a.b.c' give 1, { a: { b: null } } and 'a.b.c'
\* give undefined
C24_DeepValue ==
  /\ returned.fn = "getValueByPath"
  /\ returned.path = <<"a", "b", "c">>
  /\ returned.obj = Props(<<Prop("a", Props(<<Prop("b", Props(<<Prop("c", JNum(1))>>))>>))>>)
  /\ returned.found = JNum(1)

\* no token of the output is a tag
IsResolved(out) == \A i \in 1..Len(out) : out[i].k = "text"

\* C23: for every built-in template and every configuration that validate
\* accepts, the string render returns holds no unresolved directive: no
\* {{#if, {{/if}}, {{#each, {{/each}}, {{else}} or {{...}} token remains.
C23_NoUnresolvedDirective ==
  \A cfg \in RenderedConfigs :
    (/\ rendered.k = "string"
     /\ rendered.name \in BuiltInNames
     /\ rendered.given = DataOf(cfg)
     /\ validate(cfg) = <<>>) => IsResolved(rendered.out)

\* C23 for the built-in templates other than README.md
C23_OtherTemplatesResolved ==
  \A cfg \in RenderedConfigs :
    (/\ rendered.k = "string"
     /\ rendered.name \in BuiltInNames \ {"README.md"}
     /\ rendered.given = DataOf(cfg)
     /\ validate(cfg) = <<>>) => IsResolved(rendered.out)

\* README.md rendered with a configuration that has chapters: the {{/if}}
\* of the block of the chapters is left in the output
C23_ReadmeKeepsEndIf ==
  /\ rendered.k = "string"
  /\ rendered.name = "README.md"
  /\ rendered.given = DataOf([BaseConfig EXCEPT !.structure = PagedStructure])
  /\ validate([BaseConfig EXCEPT !.structure = PagedStructure]) = <<>>
  /\ \E i \in 1..Len(rendered.out) : rendered.out[i] = EndIfTag

\* the text an interpolated value is claimed to give: nothing for undefined
\* and null, the string form of any other value
Interpolated(v) == IF v.t \in {"undefined", "null"} THEN <<>> ELSE Plain(JString(v))

RECURSIVE FieldLines(_, _)
\* 'x;y;' for the pieces x, y, from piece `from` on
FieldLines(pieces, from) ==
  IF from > Len(pieces) THEN <<>>
  ELSE pieces[from] \o <<Text(";")>> \o FieldLines(pieces, from + 1)

\* the value of title in an element of an each block
TitleOf(item) == getValueByPath(item, <<"title">>)

\* C25: {{path}}, and {{subpath}} inside an each body, give the empty string
\* only when the lookup yields undefined or null; any other value, 0 and
\* false included, appears in its string form.
C25_OnlyNullishIsEmpty ==
  /\ (rendered.k = "string" /\ rendered.template.toks = VariableTemplate) =>
        rendered.out = Interpolated(getValueByPath(rendered.given, <<"p">>))
  /\ (rendered.k = "string" /\ rendered.template.toks = EachFieldTemplate
        /\ getValueByPath(rendered.given, <<"items">>).t = "array") =>
        LET array == getValueByPath(rendered.given, <<"items">>).a
        IN rendered.out =
             FieldLines([i \in 1..Len(array) |-> Interpolated(TitleOf(array[i]))], 1)

\* {{p}} with p = 0 renders as the empty string
C25_ZeroIsEmpty ==
  /\ rendered.k = "string"
  /\ rendered.template.toks = VariableTemplate
  /\ GetProp(rendered.given, "p") = JNum(0)
  /\ rendered.out = <<>>

\* C25 for values that are truthy, undefined or null and hold no tag
C25_TruthyOrNullish ==
  LET p == getValueByPath(rendered.given, <<"p">>)
  IN (rendered.k = "string" /\ rendered.template.toks = VariableTemplate
        /\ (JTruthy(p) \/ p.t \in {"undefined", "null"})) =>
        rendered.out = Interpolated(p)

\* C26: inside an {{#each p}} body a {{subpath}} token is resolved against
\* the current element and never against the outer data object, even when
\* the outer data has a field of the same name.
C26_ResolvedAgainstElement ==
  LET array == getValueByPath(rendered.given, <<"items">>)
  IN (rendered.k = "string" /\ rendered.template.toks = EachFieldTemplate
        /\ array.t = "array") =>
       \E f \in [1..Len(array.a) -> BOOLEAN] :
         rendered.out =
           FieldLines([i \in 1..Len(array.a) |->
                         IF f[i] THEN Plain(JString(TitleOf(array.a[i]))) ELSE <<>>], 1)

\* C26 for elements whose title holds no tag
C26_PlainTitles ==
  LET array == getValueByPath(rendered.given, <<"items">>)
  IN (rendered.k = "string" /\ rendered.template.toks = EachFieldTemplate
        /\ array.t = "array"
        /\ \A i \in 1..Len(array.a) : TagInText \notin Range(TitleOf(array.a[i]).s)) =>
       \E f \in [1..Len(array.a) -> BOOLEAN] :
         rendered.out =
           FieldLines([i \in 1..Len(array.a) |->
                         IF f[i] THEN Plain(JString(TitleOf(array.a[i]))) ELSE <<>>], 1)

\* the title of the element is '{{title}}': the title of the outer data
\* object is in the output
C26_OuterTitleShown ==
  /\ rendered.k = "string"
  /\ rendered.template.toks = EachFieldTemplate
  /\ GetProp(rendered.given, "title") = JStr(<<"T">>)
  /\ GetProp(rendered.given, "items") = JArr(<<Props(<<Prop("title", JStr(<<TagInText>>))>>)>>)
  /\ rendered.out = Plain(<<"T", ";">>)

\* elements with and without a title, the outer data object having one:
\* 'x;;;'
C26_ElementTitles ==
  /\ rendered.k = "string"
  /\ rendered.template.toks = EachFieldTemplate
  /\ GetProp(rendered.given, "title") = JStr(<<"T">>)
  /\ GetProp(rendered.given, "items") =
       JArr(<<Props(<<Prop("title", JStr(<<"x">>))>>), Props(<<>>), JStr(<<"y">>)>>)
  /\ rendered.out = Plain(<<"x", ";", ";", ";">>)

\* the run has written navigation.json with the map of its configuration
NavigationEmitted ==
  /\ \E i \in 1..Len(fsWrites) : fsWrites[i] = "navigation.json"
  /\ navigationOrder = NavigationOrder(config)
  /\ navigationData = BuildEntries(config, NavigationOrder(config), 1, EmptyMap)

\* C27: every run that passes validation, createBook or updateBook, derives
\* the navigation map from the configuration loaded in that run and emits
\* it: a run that has returned successfully has written navigation.json
\* with the map of its configuration.
C27_EveryRunEmitsNavigation ==
  (mode \in {"create", "update"} /\ pc = "done") => NavigationEmitted

\* C27 for createBook alone
C27_CreateEmitsNavigation ==
  (mode = "create" /\ pc = "done") => NavigationEmitted

\* updateBook has returned true for a configuration with pages and
\* navigation.json was not written
C27_UpdateWithoutNavigation ==
  /\ mode = "update" /\ pc = "done"
  /\ validateResult = <<>>
  /\ Len(NavigationOrder(config)) > 0
  /\ \A i \in 1..Len(fsWrites) : fsWrites[i] # "navigation.json"
  /\ navigationData = EmptyMap

\* createBook has returned for a configuration with pages
C27_CreateWithNavigation ==
  /\ mode = "create" /\ pc = "done"
  /\ Len(NavigationOrder(config)) > 0
  /\ NavigationEmitted

\* the path of the link to the page of key
PathOfKey(key) == <<"/">> \o key \o HtmlSuffix

\* next of a points at b exactly when previous of b points at a
LinksAgree(map) ==
  \A a \in DOMAIN map, b \in DOMAIN map :
    (~map[a].next.null /\ map[a].next.path = PathOfKey(b))
      <=> (~map[b].previous.null /\ map[b].previous.path = PathOfKey(a))

\* no walk along next comes back to a key it has visited
NoLoop(map) ==
  \A k \in DOMAIN map :
    LET visited == Walk(map, k, Cardinality(DOMAIN map) + 1)
    IN Cardinality(Range(visited)) = Len(visited)

\* C28: in every navigation map built from a duplicate-free order the links
\* are mutually consistent: the entry of a has next.path = '/' + b + '.html'
\* if and only if the entry of b has previous.path = '/' + a + '.html', and
\* no chain of next links returns to a key already visited.
C28_LinksMutuallyConsistent ==
  (/\ mode = "call" /\ pc = "done"
   /\ Cardinality(Range(navigationOrder)) = Len(navigationOrder))
    => LinksAgree(navigationData) /\ NoLoop(navigationData)

\* C28 for the duplicate-free orders whose page keys are all truthy
C28_TruthyKeysAgree ==
  (/\ mode = "call" /\ pc = "done"
   /\ Cardinality(Range(navigationOrder)) = Len(navigationOrder)
   /\ \A i \in 1..Len(navigationOrder) : Truthy(navigationOrder[i]))
    => LinksAgree(navigationData) /\ NoLoop(navigationData)

\* the order ['a', '']: the entry of '' has previous.path = '/a.html', the
\* entry of 'a' has next = null
C28_EmptyKeyHasPrevious ==
  /\ mode = "call" /\ pc = "done"
  /\ validateResult = <<>>
  /\ navigationOrder = <<Lit("a"), Str(<<>>)>>
  /\ navigationData[<<"a">>].next.null
  /\ navigationData[<<>>].previous.path = PathOfKey(<<"a">>)

\* a map of two pages whose links agree
C28_TwoPagesAgree ==
  /\ mode = "call" /\ pc = "done"
  /\ navigationOrder = <<Lit("a"), Lit("b")>>
  /\ LinksAgree(navigationData)
  /\ navigationData[<<"a">>].next.path = PathOfKey(<<"b">>)

====
